---- MODULE Spec2Model ----
(***************************************************************************)
(* Model of the typing-analyzer event-stream analysis engine               *)
(* (src/src/analyzer.py), the capture-side correction classifier           *)
(* (src/src/keylogger.py) and the shared helpers (src/src/utils.py).       *)
(*                                                                         *)
(* Times are integers in milliseconds: a timestamp of 1.5 s is 1500.       *)
(* Ratios the code computes as floats are kept exact, as a numerator and a *)
(* denominator.  Text is a sequence of one-character strings.              *)
(***************************************************************************)
EXTENDS Integers, Sequences, FiniteSets, TLC

VARIABLES
    events,          \* TypingPatternAnalyzer.events
    pc,              \* "ready": events loaded, "done": the analysis has returned
    min_keystrokes,  \* argument of _detect_flow_states
    sessions_out,    \* value returned by analyze_sessions
    flow_out,        \* value returned by _detect_flow_states
    words_out,       \* text_segments computed by analyze_word_patterns
    agg_out,         \* results of analyze_key_usage / efficiency / error patterns /
                     \* optimization opportunities, and the local list
                     \* 'opportunities' of the latter as it was before its sort
    recent_keystrokes,         \* TypingAnalyzerKeylogger.recent_keystrokes
    last_key_was_correction,   \* TypingAnalyzerKeylogger.last_key_was_correction
    captured,        \* the events on_key_release has built so far, in order
    analysis_results,  \* TypingPatternAnalyzer.analysis_results
    returned,        \* the values the calls of run_full_analysis returned, in order
    invoked,         \* the analysis components the last run_full_analysis called
    clock,           \* the wall clock datetime.now() reads
    claude_config,   \* what analyze_with_claude finds: requests, the switch, the key
    buffer,          \* DataManager._buffer
    buffer_size,     \* DataManager._buffer_size
    files,           \* the keystrokes_<time>.json files of the data directory:
                     \* the second in the name |-> the events written
    wall_second,     \* the second datetime.now() falls in
    loaded,          \* <<the list load_data returned>> if it was the last call
    added,           \* the events given to add_keystroke so far, in order
    manual_flushes,  \* the number of flush_buffer calls made from outside
    wpm_duration,    \* the duration_seconds given to calculate_wpm (in ms)
    wpm_out,         \* <<the value calculate_wpm returned>>
    is_running,      \* TypingAnalyzerKeylogger.is_running
    monitor_pc,      \* the main thread: "idle" before start_monitoring, "loop"
                     \* in its while loop, "returned" after it
    listener,        \* the keyboard listener: "none", "running", "stopped"
    flush_timer,     \* the timer of _periodic_flush: "off", "pending", or
                     \* "flushing" once the callback has seen is_running
    signal_received, \* TRUE once SIGINT / SIGTERM has been handled
    flushed_after_signal,  \* TRUE once flush_buffer was called after the signal
    reports,         \* the contents of the report files generate_reports wrote
    flushers         \* the threads that can be inside flush_buffer: where each
                     \* one is, and its locals 'filename' and 'data'

analyzerVars == <<events, pc, min_keystrokes, sessions_out, flow_out, words_out, agg_out>>

keyloggerVars == <<recent_keystrokes, last_key_was_correction, captured>>

runVars == <<analysis_results, returned, invoked, clock, claude_config>>

storeVars == <<buffer, buffer_size, files, wall_second, loaded, added, manual_flushes>>

wpmVars == <<wpm_duration, wpm_out>>

monitorVars == <<is_running, monitor_pc, listener, flush_timer, signal_received, flushed_after_signal>>

\* the variables of the components a specification does not exercise
reportVars == <<reports>>

threadVars == <<flushers>>

restVars == <<runVars, storeVars, wpmVars, monitorVars, reportVars, threadVars>>

vars == <<analyzerVars, keyloggerVars, restVars>>

\* TypingAnalyzerKeylogger.__init__
KeyloggerInit ==
    /\ recent_keystrokes = <<>>
    /\ last_key_was_correction = FALSE
    /\ captured = <<>>

\* "self.analysis_results = {}": the empty dict is the function of no key; no
\* call of run_full_analysis yet; no API key configured
RunInit ==
    /\ analysis_results = <<>>
    /\ returned = <<>>
    /\ invoked = {}
    /\ clock = 0
    /\ claude_config = "no_api_key"

\* "self._buffer_size = 10000"
default_buffer_size == 10000

\* DataManager.__init__, an empty data directory
DataManagerInit ==
    /\ buffer = <<>>
    /\ buffer_size = default_buffer_size
    /\ files = <<>>
    /\ wall_second = 0
    /\ loaded = <<>>
    /\ added = <<>>
    /\ manual_flushes = 0

\* no call of calculate_wpm yet
WpmInit ==
    /\ wpm_duration = 0
    /\ wpm_out = <<>>

\* TypingAnalyzerKeylogger.__init__: "self.is_running = False", no listener, no
\* timer, no signal yet
MonitorInit ==
    /\ is_running = FALSE
    /\ monitor_pc = "idle"
    /\ listener = "none"
    /\ flush_timer = "off"
    /\ signal_received = FALSE
    /\ flushed_after_signal = FALSE

\* no report written yet
ReportInit == reports = <<>>

\* the listener thread and the timer thread, both outside of the DataManager
Flushers == {"listener", "timer"}

ThreadInit == flushers = [t \in Flushers |-> [at |-> "idle", filename |-> 0, data |-> <<>>]]

RestInit == RunInit /\ DataManagerInit /\ WpmInit /\ MonitorInit /\ ReportInit /\ ThreadInit

\* no aggregate computed yet: each field is <<>> or <<the returned dict>>
NoAggregates ==
    [key_usage |-> <<>>, efficiency |-> <<>>, error_patterns |-> <<>>,
     optimization_opportunities |-> <<>>, found_opportunities |-> <<>>]

\* TypingPatternAnalyzer.__init__ apart from the events
AnalyzerInit ==
    /\ pc = "ready"
    /\ min_keystrokes = 0
    /\ sessions_out = <<>>
    /\ flow_out = <<>>
    /\ words_out = <<>>
    /\ agg_out = NoAggregates

(***************************************************************************)
(* Bounds of the model.                                                    *)
(***************************************************************************)
MaxSessionEvents == 5
MaxFlowEvents == 5
MaxMinKeystrokes == 3
MaxWordEvents == 5
MaxKeys == 5
MaxAggEvents == 5
MaxWordEntries == 2
MaxSameFinger == 6
MaxBigrams == 2
MaxRunEvents == 3
MaxRuns == 2
MaxAdds == 5
MaxBufferSize == 3
MaxSeconds == 2
MaxWpmEvents == 4
MaxRollingKeys == 11
MaxErrorEvents == 5
MaxFinalEvents == 4
MaxChunks == 4
MaxReportEvents == 1
MaxReports == 2
MaxThreadAdds == 3
MaxTypos == 2

(***************************************************************************)
(* Generic helpers.                                                        *)
(***************************************************************************)
RECURSIVE SumSeq(_)
SumSeq(s) == IF s = <<>> THEN 0 ELSE Head(s) + SumSeq(Tail(s))

RECURSIVE Concat(_)
Concat(ss) == IF ss = <<>> THEN <<>> ELSE Head(ss) \o Concat(Tail(ss))

SeqsUpTo(S, n) == UNION {[1..k -> S] : k \in 0..n}

Indices(s) == 1..Len(s)

\* a dict with one more key
WithKey(dict, key, value) ==
    [k \in (DOMAIN dict) \cup {key} |-> IF k = key THEN value ELSE dict[k]]

(***************************************************************************)
(* Characters (str methods used by the code, on the model's alphabet).     *)
(***************************************************************************)
LowerLetters ==
    {"a", "b", "c", "d", "e", "f", "g", "h", "i", "j", "k", "l", "m",
     "n", "o", "p", "q", "r", "s", "t", "u", "v", "w", "x", "y", "z"}
UpperLetters == {"H", "T"}
Digits == {"1"}
SentenceEnd == {".", "!", "?"}
TrailingPunct == {".", "!", "?", ",", ":", ";"}
Whitespace == {" ", "\t", "\n", "\r"}

\* str.isalnum() of a one-character string
IsAlnum(c) == c \in LowerLetters \cup UpperLetters \cup Digits

\* str.isprintable() of a one-character string: tab, newline and carriage
\* return are not printable, the space is
IsPrintable(c) == c \in LowerLetters \cup UpperLetters \cup Digits \cup TrailingPunct \cup {" "}

\* str.lower() of a one-character string
LowerChar(c) == CASE c = "H" -> "h" [] c = "T" -> "t" [] OTHER -> c

Lower(w) == [i \in 1..Len(w) |-> LowerChar(w[i])]

(***************************************************************************)
(* KeystrokeEvent (src/src/utils.py).  Only the fields the analyses read.  *)
(***************************************************************************)
KeystrokeEvent(ts, ch, name, corr, pause, burst) ==
    [timestamp |-> ts, key_char |-> ch, key_name |-> name, is_correction |-> corr,
     pause_before |-> pause, typing_burst |-> burst, corrected_text |-> <<>>]

\* A printable key typed in a burst, no pause.
CharEvent(ts, ch) == KeystrokeEvent(ts, ch, ch, FALSE, 0, TRUE)

\* The backspace key as _get_key_info / _is_correction_key record it.
BackspaceEvent(ts) == KeystrokeEvent(ts, "", "backspace", TRUE, 0, TRUE)

(***************************************************************************)
(* calculate_wpm (src/src/utils.py): (chars / 5) / (duration / 60), 0 when *)
(* the duration is not positive.  Duration in ms, result as num/den.       *)
(***************************************************************************)
\* len(k.key_char) == 1 and k.key_char.isalnum()
IsWpmChar(e) == e.key_char # "" /\ IsAlnum(e.key_char)

\* the variant without the guard on the duration
calculate_wpm_unguarded(keystrokes, duration_ms) ==
    [num |-> Cardinality({i \in Indices(keystrokes) : IsWpmChar(keystrokes[i])}) * 60 * 1000, den |-> 5 * duration_ms]

calculate_wpm(keystrokes, duration_ms) ==
    IF duration_ms <= 0
    THEN [num |-> 0, den |-> 1]
    ELSE [num |-> Cardinality({i \in Indices(keystrokes) : IsWpmChar(keystrokes[i])}) * 60 * 1000, den |-> 5 * duration_ms]

(***************************************************************************)
(* Session segmentation: _identify_typing_sessions, _analyze_session,      *)
(* analyze_sessions (src/src/analyzer.py).                                 *)
(***************************************************************************)
\* session_detection.all_day_tracking_mode, default True
all_day_mode == TRUE

\* session_detection.long_pause_threshold, default 1800 s
long_pause == 1800000

\* the 5 * 60 s threshold of the backward-compatible mode
legacy_gap == 300000

\* the variant that takes the backward-compatible branch in all-day mode
session_gap_threshold_swapped == IF all_day_mode THEN legacy_gap ELSE long_pause

session_gap_threshold == IF all_day_mode THEN long_pause ELSE legacy_gap

\* pause_threshold = 30 s inside _analyze_session
pause_threshold == 30000

\* the variant that measures every interval from the start of the session
RECURSIVE ActiveSumFromStart(_, _, _)
ActiveSumFromStart(session_events, lo, hi) ==
    IF lo > hi THEN 0
    ELSE IF lo = hi
    THEN LET interval == session_events[lo].timestamp - session_events[1].timestamp
         IN IF interval <= pause_threshold THEN interval ELSE 0
    ELSE LET mid == (lo + hi) \div 2
         IN ActiveSumFromStart(session_events, lo, mid)
            + ActiveSumFromStart(session_events, mid + 1, hi)

\* active_duration_seconds: the sum, over the events lo..hi of the session, of
\* the intervals <= pause_threshold (added up by halves of the range)
RECURSIVE ActiveSum(_, _, _)
ActiveSum(session_events, lo, hi) ==
    IF lo > hi THEN 0
    ELSE IF lo = hi
    THEN LET interval == session_events[lo].timestamp - session_events[lo-1].timestamp
         IN IF interval <= pause_threshold THEN interval ELSE 0
    ELSE LET mid == (lo + hi) \div 2
         IN ActiveSum(session_events, lo, mid) + ActiveSum(session_events, mid + 1, hi)

\* the variant without the fallback to the raw span
ActiveDurationNoFallback(session_events, total_duration) ==
    ActiveSum(session_events, 2, Len(session_events))

\* active duration after the fallback: below 10% of the raw span, the raw span
ActiveDuration(session_events, total_duration) ==
    LET active == ActiveSum(session_events, 2, Len(session_events))
    IN IF active * 10 < total_duration THEN total_duration ELSE active

\* _analyze_session.  start_timestamp / end_timestamp are the instants the code
\* formats into start_time / end_time; session_events is the group the record
\* was computed from (the function's argument).
AnalyzeSession(session_events) ==
    LET start_time == session_events[1].timestamp
        end_time == session_events[Len(session_events)].timestamp
        total_duration == end_time - start_time
        active_duration == ActiveDuration(session_events, total_duration)
        corrections == Cardinality({i \in Indices(session_events) :
                                        session_events[i].is_correction})
    IN [session_number |-> 0,
        start_timestamp |-> start_time,
        end_timestamp |-> end_time,
        total_duration |-> total_duration,
        active_duration |-> active_duration,
        total_keystrokes |-> Len(session_events),
        corrections |-> corrections,
        wpm |-> calculate_wpm(session_events, active_duration),
        session_events |-> session_events]

\* the variant without the length guard: a lone event becomes a session
CloseSessionUnguarded(sessions, current_session_events) ==
    Append(sessions, [session_number |-> 0,
                      start_timestamp |-> current_session_events[1].timestamp,
                      end_timestamp |-> current_session_events[Len(current_session_events)].timestamp,
                      total_duration |-> 0,
                      active_duration |-> 0,
                      total_keystrokes |-> Len(current_session_events),
                      corrections |-> 0,
                      wpm |-> [num |-> 0, den |-> 1],
                      session_events |-> current_session_events])

\* "if len(current_session_events) > 1": a group of one event is not a session
CloseSession(sessions, current_session_events) ==
    IF Len(current_session_events) > 1
    THEN Append(sessions, AnalyzeSession(current_session_events))
    ELSE sessions

\* the loop "for i in range(1, len(self.events))" taken one group at a time:
\* current_session_events starts at index first (1-based) and the iterations
\* up to the next gap above the threshold only append to it, so the group runs
\* to the event before the first such gap, or to the end of the list
RECURSIVE SessionLoop(_, _, _)
SessionLoop(evs, first, sessions) ==
    LET breaks == {j \in (first + 1)..Len(evs) :
                      evs[j].timestamp - evs[j-1].timestamp > session_gap_threshold}
    IN IF breaks = {}
       THEN CloseSession(sessions, SubSeq(evs, first, Len(evs)))
       ELSE LET i == CHOOSE j \in breaks : \A k \in breaks : j <= k
            IN SessionLoop(evs, i, CloseSession(sessions, SubSeq(evs, first, i - 1)))

IdentifyTypingSessions(evs) ==
    IF Len(evs) < 2 THEN <<>> ELSE SessionLoop(evs, 1, <<>>)

\* the variant of enumerate(sessions) without the start index
NumberSessionsFromZero(sessions) ==
    [i \in 1..Len(sessions) |-> [sessions[i] EXCEPT !.session_number = i - 1]]

\* "for i, session in enumerate(sessions, 1): session['session_number'] = i"
NumberSessions(sessions) ==
    [i \in 1..Len(sessions) |-> [sessions[i] EXCEPT !.session_number = i]]

\* analyze_sessions: the 'sessions' list of its result
AnalyzeSessions(evs) == NumberSessions(IdentifyTypingSessions(evs))

(***************************************************************************)
(* Specification of the session analysis: any time-ordered event list of   *)
(* at most MaxSessionEvents events, then analyze_sessions.                 *)
(***************************************************************************)
\* gaps between consecutive events: simultaneous, 1 s, exactly the 30 s
\* cutoff, just above it, exactly the long-pause threshold, just above it
SessionGaps == {0, 1000, 30000, 31000, 1800000, 1800001}

RECURSIVE EventsFromGaps(_, _)
EventsFromGaps(first, gaps) ==
    IF gaps = <<>> THEN <<first>>
    ELSE <<first>> \o EventsFromGaps(CharEvent(first.timestamp + Head(gaps), "a"), Tail(gaps))

SessionInputs ==
    {<<>>} \cup {EventsFromGaps(CharEvent(0, "a"), g) :
                    g \in SeqsUpTo(SessionGaps, MaxSessionEvents - 1)}

InitSessions ==
    /\ events \in SessionInputs
    /\ AnalyzerInit
    /\ KeyloggerInit
    /\ RestInit

RunAnalyzeSessions ==
    /\ pc = "ready"
    /\ sessions_out' = AnalyzeSessions(events)
    /\ pc' = "done"
    /\ UNCHANGED <<events, min_keystrokes, flow_out, words_out, agg_out, keyloggerVars, restVars>>

NextSessions == RunAnalyzeSessions

SpecSessions == InitSessions /\ [][NextSessions]_vars

\* the gap before event i (i >= 2)
GapBefore(i) == events[i].timestamp - events[i-1].timestamp

\* the positions whose gap to the previous event exceeds the long-pause threshold
LongGaps == {i \in 2..Len(events) : GapBefore(i) > long_pause}

\* an event with no neighbour within the threshold on either side
Isolated(i) ==
    /\ i = 1 \/ i \in LongGaps
    /\ i = Len(events) \/ (i + 1) \in LongGaps

RECURSIVE KeepNotIsolated(_)
KeepNotIsolated(i) ==
    IF i > Len(events) THEN <<>>
    ELSE (IF Isolated(i) THEN <<>> ELSE <<events[i]>>) \o KeepNotIsolated(i + 1)

SessionGroups == [i \in 1..Len(sessions_out) |-> sessions_out[i].session_events]

SessionKeystrokes == [i \in 1..Len(sessions_out) |-> sessions_out[i].total_keystrokes]

\* C1 as stated: for every non-empty time-ordered input the event groups of the
\* emitted sessions, concatenated in order, are the input sequence, and the
\* per-session total_keystrokes sum to len(events).
C1_Original ==
    (pc = "done" /\ events # <<>>) =>
        /\ Concat(SessionGroups) = events
        /\ SumSeq(SessionKeystrokes) = Len(events)

\* C1 amended: the concatenated groups are the input with its isolated events
\* removed (an event with no neighbour within the long-pause threshold on either
\* side, the only event of a one-event input included); the total_keystrokes sum
\* to len(events) minus the number of isolated events; the cover is exact
\* exactly when no event is isolated.
C1_Cover ==
    pc = "done" =>
        /\ Concat(SessionGroups) = KeepNotIsolated(1)
        /\ SumSeq(SessionKeystrokes)
             = Len(events) - Cardinality({i \in Indices(events) : Isolated(i)})
        /\ (Concat(SessionGroups) = events) <=> (\A i \in Indices(events) : ~Isolated(i))

C1_Witness ==
    /\ pc = "done"
    /\ Len(sessions_out) >= 2
    /\ \E i \in Indices(events) : Isolated(i)

\* C2 as stated: exactly one gap above the long-pause threshold gives exactly
\* two sessions.
C2_Original ==
    (pc = "done" /\ Cardinality(LongGaps) = 1) => Len(sessions_out) = 2

\* C2 amended: with exactly one gap above the threshold, before event k, each
\* side of the gap gives one session if it holds at least two events and none
\* otherwise; so there are exactly two sessions iff k >= 3 and k <= len - 1.
C2_OneLongGap ==
    (pc = "done" /\ Cardinality(LongGaps) = 1) =>
        LET k == CHOOSE i \in LongGaps : TRUE
        IN /\ Len(sessions_out) = (IF k - 1 >= 2 THEN 1 ELSE 0)
                                  + (IF Len(events) - k + 1 >= 2 THEN 1 ELSE 0)
           /\ (Len(sessions_out) = 2) <=> (k >= 3 /\ k <= Len(events) - 1)

C2_Witness ==
    /\ pc = "done"
    /\ Cardinality(LongGaps) = 1
    /\ Len(sessions_out) = 2
    /\ \E i \in 2..Len(events) : GapBefore(i) = long_pause

\* C3: sessions are in chronological order and do not overlap (the end of
\* session i is not after the start of session i+1), and analyze_sessions
\* numbers them 1..n in that order.
C3_Chronological ==
    pc = "done" =>
        \A i \in Indices(sessions_out) :
            /\ sessions_out[i].session_number = i
            /\ sessions_out[i].start_timestamp <= sessions_out[i].end_timestamp
            /\ i < Len(sessions_out) =>
                   sessions_out[i].end_timestamp <= sessions_out[i+1].start_timestamp

C3_Witness ==
    /\ pc = "done"
    /\ Len(sessions_out) >= 2
    /\ sessions_out[2].session_number = 2

\* C4: in every session the active duration is at most the raw duration, which
\* is the last timestamp of the session minus the first.
C4_ActiveLeRaw ==
    pc = "done" =>
        \A i \in Indices(sessions_out) :
            LET s == sessions_out[i]
            IN /\ s.total_duration
                    = s.session_events[Len(s.session_events)].timestamp
                      - s.session_events[1].timestamp
               /\ s.active_duration <= s.total_duration

\* a session with a pause above 30 s that is left out of the active time
C4_Witness ==
    /\ pc = "done"
    /\ \E i \in Indices(sessions_out) :
          /\ sessions_out[i].active_duration < sessions_out[i].total_duration
          /\ sessions_out[i].active_duration > 0

(***************************************************************************)
(* Flow detection: _detect_flow_states (src/src/analyzer.py).              *)
(***************************************************************************)
\* "event.pause_before < 0.5"
flow_pause_limit == 500

is_flowing(event) ==
    /\ event.typing_burst
    /\ ~event.is_correction
    /\ event.pause_before < flow_pause_limit

\* the dict appended to flow_periods, for events[first..last] (1-based, both
\* included); flow_events is the slice it was built from
FlowPeriod(evs, first, last) ==
    LET flow_events == SubSeq(evs, first, last)
        duration == evs[last].timestamp - evs[first].timestamp
    IN [start_time |-> evs[first].timestamp,
        end_time |-> evs[last].timestamp,
        duration_seconds |-> duration,
        keystroke_count |-> Len(flow_events),
        wpm |-> calculate_wpm(flow_events, duration),
        flow_events |-> flow_events]

\* state of the scan: current_flow_start is 0 for None
FlowStart == [flow_periods |-> <<>>, current_flow_start |-> 0, consistent_typing_count |-> 0]

\* the variant that forgets to reset the streak counter at a break
FlowStepNoReset(evs, i, st, min_ks) ==
    IF is_flowing(evs[i])
    THEN [st EXCEPT !.current_flow_start = IF @ = 0 THEN i ELSE @,
                    !.consistent_typing_count = @ + 1]
    ELSE [flow_periods |->
              IF st.current_flow_start # 0 /\ st.consistent_typing_count >= min_ks
              THEN Append(st.flow_periods, FlowPeriod(evs, st.current_flow_start, i - 1))
              ELSE st.flow_periods,
          current_flow_start |-> 0,
          consistent_typing_count |-> st.consistent_typing_count]

\* one iteration of "for i, event in enumerate(self.events)"
FlowStep(evs, i, st, min_ks) ==
    IF is_flowing(evs[i])
    THEN [st EXCEPT !.current_flow_start = IF @ = 0 THEN i ELSE @,
                    !.consistent_typing_count = @ + 1]
    ELSE [flow_periods |->
              IF st.current_flow_start # 0 /\ st.consistent_typing_count >= min_ks
              THEN Append(st.flow_periods, FlowPeriod(evs, st.current_flow_start, i - 1))
              ELSE st.flow_periods,
          current_flow_start |-> 0,
          consistent_typing_count |-> 0]

\* the loop "for i, event in enumerate(self.events)" over the events lo..hi,
\* run by halves of the range; the streak counter is never negative, the test
\* on it makes the state after the first half a value before the second starts
RECURSIVE FlowLoop(_, _, _, _, _)
FlowLoop(evs, lo, hi, st, min_ks) ==
    IF lo > hi THEN st
    ELSE IF lo = hi THEN FlowStep(evs, lo, st, min_ks)
    ELSE LET mid == (lo + hi) \div 2
             half == FlowLoop(evs, lo, mid, st, min_ks)
         IN IF half.consistent_typing_count < 0 THEN half
            ELSE FlowLoop(evs, mid + 1, hi, half, min_ks)

\* the variant without the end-of-data case
FlowFlushMissing(evs, st, min_ks) == st.flow_periods

\* "Handle case where flow continues to end of data"
FlowFlush(evs, st, min_ks) ==
    IF st.current_flow_start # 0 /\ st.consistent_typing_count >= min_ks
    THEN Append(st.flow_periods, FlowPeriod(evs, st.current_flow_start, Len(evs)))
    ELSE st.flow_periods

DetectFlowStates(evs, min_ks) == FlowFlush(evs, FlowLoop(evs, 1, Len(evs), FlowStart, min_ks), min_ks)

(***************************************************************************)
(* Specification of the flow detection: any stream of at most              *)
(* MaxFlowEvents events 100 ms apart and any min_keystrokes up to          *)
(* MaxMinKeystrokes, then _detect_flow_states.                             *)
(***************************************************************************)
\* a flowing event (pause just under the limit) and the three ways to break
\* the flow: not a burst, a correction, a pause of exactly 0.5 s
FlowKinds == {"flow", "slow", "correction", "pause"}

FlowEvent(ts, kind) ==
    CASE kind = "flow" -> KeystrokeEvent(ts, "a", "a", FALSE, flow_pause_limit - 1, TRUE)
      [] kind = "slow" -> KeystrokeEvent(ts, "a", "a", FALSE, 0, FALSE)
      [] kind = "correction" -> BackspaceEvent(ts)
      [] kind = "pause" -> KeystrokeEvent(ts, "a", "a", FALSE, flow_pause_limit, TRUE)

FlowInputs ==
    {[i \in 1..Len(k) |-> FlowEvent(i * 100, k[i])] :
        k \in SeqsUpTo(FlowKinds, MaxFlowEvents)}

InitFlow ==
    /\ events \in FlowInputs
    /\ min_keystrokes \in 0..MaxMinKeystrokes
    /\ pc = "ready"
    /\ sessions_out = <<>>
    /\ flow_out = <<>>
    /\ words_out = <<>>
    /\ agg_out = NoAggregates
    /\ KeyloggerInit
    /\ RestInit

RunDetectFlowStates ==
    /\ pc = "ready"
    /\ flow_out' = DetectFlowStates(events, min_keystrokes)
    /\ pc' = "done"
    /\ UNCHANGED <<events, min_keystrokes, sessions_out, words_out, agg_out, keyloggerVars, restVars>>

NextFlow == RunDetectFlowStates

SpecFlow == InitFlow /\ [][NextFlow]_vars

\* events[first..last] is a run of flowing events
FlowRun(first, last) ==
    /\ 1 <= first /\ first <= last /\ last <= Len(events)
    /\ \A j \in first..last : is_flowing(events[j])

\* C5: every flow period has keystroke_count >= min_keystrokes, its
\* keystroke_count is the length of the contiguous run of events it was built
\* from, and every event of that run satisfies the flow predicate.
C5_FlowPeriods ==
    pc = "done" =>
        \A p \in Indices(flow_out) :
            /\ flow_out[p].keystroke_count >= min_keystrokes
            /\ flow_out[p].keystroke_count = Len(flow_out[p].flow_events)
            /\ \E first \in Indices(events) :
                  LET last == first + flow_out[p].keystroke_count - 1
                  IN /\ FlowRun(first, last)
                     /\ flow_out[p].flow_events = SubSeq(events, first, last)
                     /\ flow_out[p].start_time = events[first].timestamp
                     /\ flow_out[p].end_time = events[last].timestamp

\* a period was emitted and a shorter run of flowing events was not
C5_Witness ==
    /\ pc = "done"
    /\ min_keystrokes >= 2
    /\ Len(flow_out) >= 1
    /\ \E j \in Indices(events) :
          /\ is_flowing(events[j])
          /\ \A p \in Indices(flow_out) :
                events[j].timestamp < flow_out[p].start_time
                \/ events[j].timestamp > flow_out[p].end_time

\* C6: a stream of N >= min_keystrokes flowing events and nothing else gives
\* exactly one flow period, with keystroke_count N, start_time the first
\* timestamp and end_time the last: the run that reaches the end is flushed.
C6_EndFlush ==
    (/\ pc = "done"
     /\ Len(events) >= 1
     /\ Len(events) >= min_keystrokes
     /\ \A j \in Indices(events) : is_flowing(events[j])) =>
        /\ Len(flow_out) = 1
        /\ flow_out[1].keystroke_count = Len(events)
        /\ flow_out[1].start_time = events[1].timestamp
        /\ flow_out[1].end_time = events[Len(events)].timestamp

C6_Witness ==
    /\ pc = "done"
    /\ min_keystrokes >= 2
    /\ Len(events) > min_keystrokes
    /\ \A j \in Indices(events) : is_flowing(events[j])
    /\ Len(flow_out) = 1

(***************************************************************************)
(* Word reconstruction: the replay of analyze_word_patterns                *)
(* (src/src/analyzer.py).  A word is a sequence of one-character strings.  *)
(***************************************************************************)
\* str.strip(): leading and trailing whitespace removed
RECURSIVE LStrip(_)
LStrip(w) == IF w # <<>> /\ Head(w) \in Whitespace THEN LStrip(Tail(w)) ELSE w

RECURSIVE RStripSet(_, _)
RStripSet(w, chars) ==
    IF w # <<>> /\ w[Len(w)] \in chars THEN RStripSet(SubSeq(w, 1, Len(w) - 1), chars) ELSE w

Strip(w) == RStripSet(LStrip(w), Whitespace)

\* "len(clean_word) > 1 and any(c.isalnum() for c in clean_word)"
IsMeaningful(clean_word) ==
    Len(clean_word) > 1 /\ \E i \in Indices(clean_word) : IsAlnum(clean_word[i])

\* the variant current_word[1:], which drops the first character
DropFirst(current_word) == Tail(current_word)

\* "current_word = current_word[:-1]"
DropLast(current_word) == SubSeq(current_word, 1, Len(current_word) - 1)

\* a word closed by whitespace
CloseAtWhitespace(text_segments, current_word) ==
    IF Strip(current_word) # <<>>
    THEN LET clean_word == Lower(Strip(current_word))
         IN IF IsMeaningful(clean_word) THEN Append(text_segments, clean_word)
            ELSE text_segments
    ELSE text_segments

\* a word closed by '.', '!' or '?', and the final word: trailing punctuation
\* is stripped before the filter
CloseAtPunctuation(text_segments, current_word) ==
    IF Strip(current_word) # <<>>
    THEN LET clean_word == RStripSet(Lower(Strip(current_word)), TrailingPunct)
         IN IF IsMeaningful(clean_word) THEN Append(text_segments, clean_word)
            ELSE text_segments
    ELSE text_segments

WordStart == [text_segments |-> <<>>, current_word |-> <<>>]

\* the variant in which a deletion with no pending character takes back the
\* last segment
WordStepRetracting(st, event) ==
    IF event.is_correction
    THEN IF event.key_name \in {"backspace", "delete"}
         THEN IF st.current_word # <<>>
              THEN [st EXCEPT !.current_word = DropLast(@)]
              ELSE [st EXCEPT !.text_segments = DropLast(@)]
         ELSE st
    ELSE IF event.key_char = "" THEN st
    ELSE LET char == event.key_char
         IN IF char = " " \/ char \in {"\t", "\n", "\r"}
            THEN [text_segments |-> CloseAtWhitespace(st.text_segments, st.current_word),
                  current_word |-> <<>>]
            ELSE IF IsPrintable(char)
            THEN IF char \in SentenceEnd
                 THEN [text_segments |->
                           CloseAtPunctuation(st.text_segments, Append(st.current_word, char)),
                       current_word |-> <<>>]
                 ELSE [st EXCEPT !.current_word = Append(@, char)]
            ELSE st

\* one iteration of "for event in self.events"
WordStep(st, event) ==
    IF event.is_correction
    THEN IF event.key_name \in {"backspace", "delete"} /\ st.current_word # <<>>
         THEN [st EXCEPT !.current_word = DropLast(@)]
         ELSE st
    ELSE IF event.key_char = "" THEN st
    ELSE LET char == event.key_char
         IN IF char = " " \/ char \in {"\t", "\n", "\r"}
            THEN [text_segments |-> CloseAtWhitespace(st.text_segments, st.current_word),
                  current_word |-> <<>>]
            ELSE IF IsPrintable(char)
            THEN IF char \in SentenceEnd
                 THEN [text_segments |->
                           CloseAtPunctuation(st.text_segments, Append(st.current_word, char)),
                       current_word |-> <<>>]
                 ELSE [st EXCEPT !.current_word = Append(@, char)]
            ELSE st

\* "for event in self.events", over the events lo..hi, run by halves of the
\* range; the test on the length makes the state after the first half a value
\* before the second starts
RECURSIVE WordLoop(_, _, _, _)
WordLoop(evs, lo, hi, st) ==
    IF lo > hi THEN st
    ELSE IF lo = hi THEN WordStep(st, evs[lo])
    ELSE LET mid == (lo + hi) \div 2
             half == WordLoop(evs, lo, mid, st)
         IN IF Len(half.text_segments) < 0 THEN half
            ELSE WordLoop(evs, mid + 1, hi, half)

\* the variant that closes the final word as whitespace does
WordFlushAtWhitespace(st) == CloseAtWhitespace(st.text_segments, st.current_word)

\* "Add final word"
WordFlush(st) == CloseAtPunctuation(st.text_segments, st.current_word)

\* text_segments before the repair pass
ReconstructWords(evs) == WordFlush(WordLoop(evs, 1, Len(evs), WordStart))

(***************************************************************************)
(* Repair pass: _intelligent_word_split and the loop over text_segments    *)
(* that calls it for segments longer than 20 characters.                   *)
(***************************************************************************)
\* the vocabulary list, in source order
patterns ==
    <<<<"k", "e", "y", "b", "o", "a", "r", "d">>,
      <<"t", "y", "p", "i", "n", "g">>,
      <<"a", "c", "c", "e", "s", "s", "i", "b", "i", "l", "i", "t", "y">>,
      <<"c", "u", "s", "t", "o", "m", "e", "r">>,
      <<"g", "r", "o", "w", "t", "h">>,
      <<"t", "e", "r", "m", "i", "n", "a", "l">>,
      <<"d", "i", "r", "e", "c", "t", "o", "r", "y">>,
      <<"c", "r", "e", "a", "t", "e">>,
      <<"u", "p", "d", "a", "t", "e">>,
      <<"c", "l", "a", "u", "d", "e">>,
      <<"p", "r", "o", "j", "e", "c", "t">>,
      <<"m", "e", "m", "o", "r", "y">>,
      <<"c", "o", "n", "f", "i", "g">>,
      <<"a", "p", "p", "l", "i", "c", "a", "t", "i", "o", "n">>,
      <<"w", "o", "r", "k", "i", "n", "g">>,
      <<"a", "n", "a", "l", "y", "s", "i", "s">>,
      <<"c", "o", "m", "p", "l", "i", "c", "a", "t", "e", "d">>,
      <<"w", "i", "n", "d", "o", "w">>,
      <<"e", "r", "r", "o", "r">>,
      <<"t", "h", "i", "s">>,
      <<"t", "e", "s", "t">>,
      <<"t", "h", "a", "t">>,
      <<"w", "h", "a", "t">>,
      <<"s", "e", "e", "m", "s">>,
      <<"m", "a", "y", "b", "e">>,
      <<"m", "o", "r", "e">>,
      <<"w", "o", "r", "d", "s">>,
      <<"s", "l", "o", "w", "e", "r">>,
      <<"h", "a", "p", "p", "e", "n", "s">>,
      <<"f", "i", "n", "d">>,
      <<"g", "a", "v", "e">>,
      <<"o", "k", "a", "y">>,
      <<"t", "h", "e">>,
      <<"a", "n", "d">>,
      <<"w", "i", "t", "h">>,
      <<"h", "a", "v", "e">>,
      <<"f", "r", "o", "m">>,
      <<"t", "h", "e", "y">>,
      <<"k", "n", "o", "w">>,
      <<"w", "a", "n", "t">>,
      <<"g", "o", "o", "d">>,
      <<"t", "i", "m", "e">>,
      <<"w", "i", "l", "l">>,
      <<"w", "o", "r", "k">>>>

\* sorted(patterns, key=len, reverse=True): a stable sort, longest first
RECURSIVE ByLengthFrom(_, _)
ByLengthFrom(ps, n) ==
    IF n = 0 THEN <<>>
    ELSE SelectSeq(ps, LAMBDA w : Len(w) = n) \o ByLengthFrom(ps, n - 1)

LongestLen(ps) == CHOOSE n \in {Len(ps[i]) : i \in Indices(ps)} :
                      \A i \in Indices(ps) : Len(ps[i]) <= n

SortedByLength(ps) == IF ps = <<>> THEN <<>> ELSE ByLengthFrom(ps, LongestLen(ps))

\* str.find: the first position where pattern occurs in text, 0 when it does not
Find(text, pattern) ==
    LET hits == {k \in 1..(Len(text) - Len(pattern) + 1) :
                    SubSeq(text, k, k + Len(pattern) - 1) = pattern}
    IN IF hits = {} THEN 0 ELSE CHOOSE k \in hits : \A j \in hits : k <= j

\* "while pattern in remaining_text": one token per occurrence removed
RECURSIVE RemovePattern(_, _)
RemovePattern(st, pattern) ==
    LET start == Find(st.remaining_text, pattern)
    IN IF start = 0 THEN st
       ELSE RemovePattern(
                [words |-> Append(st.words, pattern),
                 remaining_text |->
                     SubSeq(st.remaining_text, 1, start - 1)
                     \o SubSeq(st.remaining_text, start + Len(pattern), Len(st.remaining_text))],
                pattern)

\* "for pattern in sorted(patterns, key=len, reverse=True)", over ps[lo..hi]
\* (by halves of the list, the state after the first half a value before the
\* second starts)
RECURSIVE ExtractPatterns(_, _, _, _)
ExtractPatterns(st, ps, lo, hi) ==
    IF lo > hi THEN st
    ELSE IF lo = hi THEN RemovePattern(st, ps[lo])
    ELSE LET mid == (lo + hi) \div 2
             half == ExtractPatterns(st, ps, lo, mid)
         IN IF Len(half.words) < 0 THEN half
            ELSE ExtractPatterns(half, ps, mid + 1, hi)

\* re.findall(r'[a-z]{3,}', text): the maximal runs of lowercase letters that
\* have three letters or more, left to right
RECURSIVE LetterRuns(_, _, _)
LetterRuns(text, i, run) ==
    IF i > Len(text)
    THEN IF Len(run) >= 3 THEN <<run>> ELSE <<>>
    ELSE IF text[i] \in LowerLetters
         THEN LetterRuns(text, i + 1, Append(run, text[i]))
         ELSE (IF Len(run) >= 3 THEN <<run>> ELSE <<>>) \o LetterRuns(text, i + 1, <<>>)

\* the variant that keeps every token
KeepDuplicates(words, seen) == words

\* list(dict.fromkeys(words)): first occurrences, in order
RECURSIVE Unique(_, _)
Unique(words, seen) ==
    IF words = <<>> THEN <<>>
    ELSE IF Head(words) \in seen THEN Unique(Tail(words), seen)
         ELSE <<Head(words)>> \o Unique(Tail(words), seen \cup {Head(words)})

\* the vocabulary in the order the loop takes it
sorted_patterns == SortedByLength(patterns)

IntelligentWordSplit(merged_text) ==
    LET extracted == ExtractPatterns([words |-> <<>>, remaining_text |-> Lower(merged_text)],
                                     sorted_patterns, 1, Len(sorted_patterns))
        all_words == extracted.words \o LetterRuns(extracted.remaining_text, 1, <<>>)
        meaningful_words == SelectSeq(Unique(all_words, {}), LAMBDA w : Len(w) >= 3)
    IN IF meaningful_words # <<>> THEN meaningful_words ELSE <<merged_text>>

\* "if len(segment) > 20"
merged_length == 20

RECURSIVE RepairPass(_)
RepairPass(text_segments) ==
    IF text_segments = <<>> THEN <<>>
    ELSE (IF Len(Head(text_segments)) > merged_length
          THEN IntelligentWordSplit(Head(text_segments))
          ELSE <<Head(text_segments)>>) \o RepairPass(Tail(text_segments))

\* analyze_word_patterns: the 'text_segments' of its result
AnalyzeWordPatterns(evs) == RepairPass(ReconstructWords(evs))

(***************************************************************************)
(* Specification of the word reconstruction: any stream of at most         *)
(* MaxWordEvents keys, or one of the two streams of the worked examples,   *)
(* then analyze_word_patterns.                                             *)
(***************************************************************************)
\* a lowercase and an uppercase letter, the two deletion keys, the space, a
\* sentence end, and a key without a character
WordKeys == {"e", "H", "backspace", "delete", " ", ".", "shift"}

KeyEvent(ts, key) ==
    CASE key = "backspace" -> BackspaceEvent(ts)
      [] key = "delete" -> KeystrokeEvent(ts, "", "delete", TRUE, 0, TRUE)
      [] key = "shift" -> KeystrokeEvent(ts, "", "shift", FALSE, 0, TRUE)
      [] OTHER -> CharEvent(ts, key)

Typed(keys) == [i \in 1..Len(keys) |-> KeyEvent(i * 100, keys[i])]

\* "hello world", a space after each word
HelloWorldStream == Typed(<<"h", "e", "l", "l", "o", " ">> \o <<"w", "o", "r", "l", "d", " ">>)

\* "helllo", two backspaces, "o", a space
HellloStream == Typed(<<"h", "e", "l", "l", "l", "o">> \o <<"backspace", "backspace", "o", " ">>)

WordInputs ==
    {Typed(k) : k \in SeqsUpTo(WordKeys, MaxWordEvents)} \cup {HelloWorldStream, HellloStream}

InitWords ==
    /\ events \in WordInputs
    /\ AnalyzerInit
    /\ KeyloggerInit
    /\ RestInit

RunAnalyzeWordPatterns ==
    /\ pc = "ready"
    /\ words_out' = AnalyzeWordPatterns(events)
    /\ pc' = "done"
    /\ UNCHANGED <<events, min_keystrokes, sessions_out, flow_out, agg_out, keyloggerVars, restVars>>

NextWords == RunAnalyzeWordPatterns

SpecWords == InitWords /\ [][NextWords]_vars

IsLetterEvent(e) == ~e.is_correction /\ e.key_char \in LowerLetters \cup UpperLetters

\* letters and deletions only, closed by one whitespace event
LettersThenSpace ==
    /\ Len(events) >= 1
    /\ ~events[Len(events)].is_correction
    /\ events[Len(events)].key_char \in Whitespace
    /\ \A i \in 1..(Len(events) - 1) : events[i].is_correction \/ IsLetterEvent(events[i])

\* the text left by the first n events of such a stream: a letter is added at
\* the end, a deletion removes the last character if there is one
RECURSIVE Replayed(_)
Replayed(n) ==
    IF n = 0 THEN <<>>
    ELSE LET before == Replayed(n - 1)
         IN IF events[n].is_correction
            THEN (IF before = <<>> THEN <<>> ELSE SubSeq(before, 1, Len(before) - 1))
            ELSE before \o <<events[n].key_char>>

\* C7: for a stream of letters and deletions closed by a whitespace event, the
\* emitted segment is the lowercased text left by the replay in which a
\* deletion removes the last character of the buffer (nothing when it is
\* empty); a text of fewer than two characters emits no segment.  "hello
\* world" gives hello, world; "helllo", two backspaces, "o", space gives hello.
C7_Replay ==
    pc = "done" =>
        /\ LettersThenSpace =>
              LET text == Lower(Replayed(Len(events) - 1))
              IN words_out = IF Len(text) > 1 THEN <<text>> ELSE <<>>
        /\ events = HelloWorldStream => words_out = <<<<"h", "e", "l", "l", "o">>, <<"w", "o", "r", "l", "d">>>>
        /\ events = HellloStream => words_out = <<<<"h", "e", "l", "l", "o">>>>

\* a deletion took a character back and a word was still emitted
C7_Witness ==
    /\ pc = "done"
    /\ LettersThenSpace
    /\ Len(words_out) = 1
    /\ \E i \in Indices(events) : events[i].is_correction /\ Replayed(i - 1) # <<>>
    /\ \E i \in Indices(events) : events[i].key_char \in UpperLetters

(***************************************************************************)
(* DataManager (src/src/utils.py).  A file is named after the second in    *)
(* which flush_buffer runs and is opened for writing, so a second flush in *)
(* the same second replaces the file of the first.                         *)
(***************************************************************************)
\* the variant that flushes only above the size
ShouldFlushAbove(length, size) == length > size

\* "if len(self._buffer) >= self._buffer_size"
ShouldFlush(length, size) == length >= size

\* flush_buffer on the files: nothing for an empty buffer, else the file of the
\* current second is written (open(filename, "w"))
FilesAfterFlush(fs, buf, second) ==
    IF buf = <<>> THEN fs ELSE WithKey(fs, second, buf)

\* add_keystroke: the buffer and the files after it
BufferAfterAdd(buf, size, event) ==
    IF ShouldFlush(Len(buf) + 1, size) THEN <<>> ELSE Append(buf, event)

FilesAfterAdd(fs, buf, size, event, second) ==
    IF ShouldFlush(Len(buf) + 1, size)
    THEN FilesAfterFlush(fs, Append(buf, event), second)
    ELSE fs

\* sorted(events, key=lambda x: x.timestamp): stable, by insertion
RECURSIVE SortedByTimestamp(_)
SortedByTimestamp(evs) ==
    IF evs = <<>> THEN <<>>
    ELSE LET rest == SortedByTimestamp(SubSeq(evs, 1, Len(evs) - 1))
             last == evs[Len(evs)]
             before == {i \in Indices(rest) : rest[i].timestamp <= last.timestamp}
         IN SubSeq(rest, 1, Cardinality(before)) \o <<last>>
            \o SubSeq(rest, Cardinality(before) + 1, Len(rest))

\* load_data without a date range: the files in the order glob gives them
LoadedEvents(fs, order) ==
    SortedByTimestamp(Concat([k \in 1..Len(order) |-> fs[order[k]]]))

\* the orders in which glob can give the files
GlobOrders(fs) ==
    {order \in [1..Cardinality(DOMAIN fs) -> DOMAIN fs] :
        \A i, j \in DOMAIN order : i # j => order[i] # order[j]}

AddKeystroke(event) ==
    /\ Len(added) < MaxAdds
    /\ buffer' = BufferAfterAdd(buffer, buffer_size, event)
    /\ files' = FilesAfterAdd(files, buffer, buffer_size, event, wall_second)
    /\ added' = Append(added, event)
    /\ loaded' = <<>>
    /\ UNCHANGED <<buffer_size, wall_second, manual_flushes>>
    /\ UNCHANGED <<analyzerVars, keyloggerVars, runVars, wpmVars, monitorVars, reportVars, threadVars>>

FlushBuffer ==
    /\ manual_flushes < MaxAdds
    /\ files' = FilesAfterFlush(files, buffer, wall_second)
    /\ buffer' = <<>>
    /\ manual_flushes' = manual_flushes + 1
    /\ loaded' = <<>>
    /\ UNCHANGED <<buffer_size, wall_second, added>>
    /\ UNCHANGED <<analyzerVars, keyloggerVars, runVars, wpmVars, monitorVars, reportVars, threadVars>>

LoadData ==
    /\ loaded = <<>>
    /\ \E order \in GlobOrders(files) : loaded' = <<LoadedEvents(files, order)>>
    /\ UNCHANGED <<buffer, buffer_size, files, wall_second, added, manual_flushes>>
    /\ UNCHANGED <<analyzerVars, keyloggerVars, runVars, wpmVars, monitorVars, reportVars, threadVars>>

\* the wall clock reaches the next second
NextSecond ==
    /\ wall_second < MaxSeconds
    /\ wall_second' = wall_second + 1
    /\ UNCHANGED <<buffer, buffer_size, files, loaded, added, manual_flushes>>
    /\ UNCHANGED <<analyzerVars, keyloggerVars, runVars, wpmVars, monitorVars, reportVars, threadVars>>

(***************************************************************************)
(* Capture-side correction classifier: _detect_correction_sequence and the *)
(* part of on_key_release that calls it (src/src/keylogger.py).            *)
(***************************************************************************)
\* common_typos, in the order of the dict
common_typos ==
    <<[typo |-> <<"t", "e", "h">>, correct |-> <<"t", "h", "e">>],
      [typo |-> <<"a", "d", "n">>, correct |-> <<"a", "n", "d">>],
      [typo |-> <<"r", "e", "c", "i", "e", "v", "e">>, correct |-> <<"r", "e", "c", "e", "i", "v", "e">>],
      [typo |-> <<"s", "e", "p", "e", "r", "a", "t", "e">>, correct |-> <<"s", "e", "p", "a", "r", "a", "t", "e">>],
      [typo |-> <<"d", "e", "f", "i", "n", "a", "t", "e", "l", "y">>, correct |-> <<"d", "e", "f", "i", "n", "i", "t", "e", "l", "y">>],
      [typo |-> <<"o", "c", "c", "u", "r", "e", "d">>, correct |-> <<"o", "c", "c", "u", "r", "r", "e", "d">>],
      [typo |-> <<"a", "c", "c", "o", "m", "o", "d", "a", "t", "e">>, correct |-> <<"a", "c", "c", "o", "m", "m", "o", "d", "a", "t", "e">>]>>

\* "keep last 10"
recent_capacity == 10

\* "self.recent_keystrokes[-6:]"
typo_window == 6

\* s[-n:]
LastN(s, n) == IF Len(s) <= n THEN s ELSE SubSeq(s, Len(s) - n + 1, Len(s))

\* the first entry of common_typos found in recent_text, as <<entry>>, or <<>>
RECURSIVE FirstTypo(_, _)
FirstTypo(recent_text, k) ==
    IF k > Len(common_typos) THEN <<>>
    ELSE IF Find(recent_text, common_typos[k].typo) # 0 THEN <<common_typos[k]>>
         ELSE FirstTypo(recent_text, k + 1)

\* the variant with the test on last_key_was_correction inverted
CorrectionTypeInverted(last_was_correction) ==
    IF last_was_correction THEN "single_correction" ELSE "multi_correction"

\* the correction_type of a correction event
CorrectionType(last_was_correction) ==
    IF ~last_was_correction THEN "single_correction" ELSE "multi_correction"

\* the variant that drops the newest character instead of the oldest
KeepRecentDropNewest(pushed) ==
    IF Len(pushed) > recent_capacity THEN SubSeq(pushed, 1, Len(pushed) - 1) ELSE pushed

\* "if len(self.recent_keystrokes) > 10: self.recent_keystrokes.pop(0)"
KeepRecent(pushed) ==
    IF Len(pushed) > recent_capacity THEN Tail(pushed) ELSE pushed

\* the variant that reports the oldest character of the buffer
CorrectedTextOldest(recent) ==
    IF Len(recent) > 0 THEN <<recent[1]>> ELSE <<>>

\* corrected_text: "self.recent_keystrokes[-1]" of a non-empty buffer, else ''
CorrectedText(recent) ==
    IF Len(recent) > 0 THEN <<recent[Len(recent)]>> ELSE <<>>

\* _detect_correction_sequence: the new recent_keystrokes, the new
\* last_key_was_correction and the returned correction_data.  typo_pattern is
\* <<>> when the key is absent from the dict.
DetectCorrectionSequence(recent, last_was_correction, key_char, key_name, is_correction) ==
    IF is_correction
    THEN [recent_keystrokes |-> IF Len(recent) > 0 THEN SubSeq(recent, 1, Len(recent) - 1)
                                ELSE recent,
          last_key_was_correction |-> is_correction,
          correction_data |->
              [is_correction |-> is_correction,
               correction_length |-> IF Len(recent) > 0 THEN 1 ELSE 0,
               corrected_text |-> CorrectedText(recent),
               likely_typo |-> FALSE,
               typo_pattern |-> <<>>,
               correction_type |-> CorrectionType(last_was_correction)]]
    ELSE IF key_char # "" /\ IsPrintable(key_char)
    THEN LET pushed == Append(recent, key_char)
             kept == KeepRecent(pushed)
             found == IF Len(kept) >= 2
                      THEN FirstTypo(Lower(LastN(kept, typo_window)), 1)
                      ELSE <<>>
         IN [recent_keystrokes |-> kept,
             last_key_was_correction |-> is_correction,
             correction_data |->
                 [is_correction |-> is_correction,
                  correction_length |-> 0,
                  corrected_text |-> <<>>,
                  likely_typo |-> found # <<>>,
                  typo_pattern |-> found,
                  correction_type |-> "none"]]
    ELSE [recent_keystrokes |-> recent,
          last_key_was_correction |-> is_correction,
          correction_data |->
              [is_correction |-> is_correction,
               correction_length |-> 0,
               corrected_text |-> <<>>,
               likely_typo |-> FALSE,
               typo_pattern |-> <<>>,
               correction_type |-> "none"]]

\* _get_key_info: key_char of a key (empty for a special key)
KeyChar(key) == IF key \in {"backspace", "delete", "shift"} THEN "" ELSE key

\* _is_correction_key
IsCorrectionKey(key) == key \in {"backspace", "delete"}

(***************************************************************************)
(* Specification of the capture: at most MaxKeys key releases.             *)
(***************************************************************************)
CaptureKeys == {"t", "e", "H", "backspace", "delete", "shift"}

\* on_key_release: the event with its correction annotations, handed to
\* data_manager.add_keystroke
OnKeyRelease(key) ==
    /\ LET r == DetectCorrectionSequence(recent_keystrokes, last_key_was_correction,
                                         KeyChar(key), key, IsCorrectionKey(key))
           event == [key_char |-> KeyChar(key), key_name |-> key,
                     is_correction |-> IsCorrectionKey(key),
                     correction_type |-> r.correction_data.correction_type,
                     corrected_text |-> r.correction_data.corrected_text,
                     correction_length |-> r.correction_data.correction_length,
                     likely_typo |-> r.correction_data.likely_typo,
                     typo_pattern |-> r.correction_data.typo_pattern]
       IN /\ recent_keystrokes' = r.recent_keystrokes
          /\ last_key_was_correction' = r.last_key_was_correction
          /\ captured' = Append(captured, event)
          /\ buffer' = BufferAfterAdd(buffer, buffer_size, event)
          /\ files' = FilesAfterAdd(files, buffer, buffer_size, event, wall_second)
          /\ added' = Append(added, event)
          /\ loaded' = <<>>
    /\ UNCHANGED <<buffer_size, wall_second, manual_flushes>>
    /\ UNCHANGED <<analyzerVars, runVars, wpmVars, monitorVars, reportVars, threadVars>>

InitCapture ==
    /\ events = <<>>
    /\ AnalyzerInit
    /\ KeyloggerInit
    /\ RestInit

NextCapture ==
    /\ Len(captured) < MaxKeys
    /\ \E key \in CaptureKeys : OnKeyRelease(key)

SpecCapture == InitCapture /\ [][NextCapture]_vars

\* C8: a correction event is classified single_correction when the event just
\* before it was not a correction (or there is none), multi_correction when it
\* was, and an event that is not a correction has correction_type none.
C8_Classification ==
    \A i \in Indices(captured) :
        captured[i].correction_type =
            IF ~captured[i].is_correction THEN "none"
            ELSE IF i > 1 /\ captured[i-1].is_correction THEN "multi_correction"
            ELSE "single_correction"

\* a correction after a character, a second one right after it, then a
\* character again and a new first correction
C8_Witness ==
    /\ Len(captured) >= 5
    /\ ~captured[1].is_correction
    /\ captured[2].correction_type = "single_correction"
    /\ captured[3].correction_type = "multi_correction"
    /\ captured[4].correction_type = "none"
    /\ captured[5].correction_type = "single_correction"

(***************************************************************************)
(* Aggregates: analyze_key_usage, analyze_efficiency_metrics and the basic *)
(* error metrics of analyze_error_patterns (src/src/analyzer.py).  A       *)
(* percentage is the exact fraction num/den.                               *)
(***************************************************************************)
RECURSIVE SumValues(_, _)
SumValues(counter, keys) ==
    IF keys = {} THEN 0
    ELSE LET k == CHOOSE x \in keys : TRUE
         IN counter[k] + SumValues(counter, keys \ {k})

\* correction_counts: a Counter of key_name over the correction events
CorrectionCounts(evs) ==
    [name \in {evs[i].key_name : i \in {j \in Indices(evs) : evs[j].is_correction}} |->
        Cardinality({i \in Indices(evs) : evs[i].is_correction /\ evs[i].key_name = name})]

\* the variant len(correction_counts): the distinct correction keys
DistinctCorrectionKeys(correction_counts) == Cardinality(DOMAIN correction_counts)

\* "sum(correction_counts.values())"
TotalOfCounts(correction_counts) == SumValues(correction_counts, DOMAIN correction_counts)

AnalyzeKeyUsage(evs) ==
    LET correction_counts == CorrectionCounts(evs)
    IN [correction_counts |-> correction_counts,
        total_keystrokes |-> Len(evs),
        total_corrections |-> TotalOfCounts(correction_counts)]

\* analysis.flow_state_threshold, default 60
flow_state_threshold == 60

\* _calculate_active_typing_duration: the sum of the sessions' active durations
CalculateActiveTypingDuration(evs) ==
    LET sessions_data == IdentifyTypingSessions(evs)
    IN SumSeq([i \in 1..Len(sessions_data) |-> sessions_data[i].active_duration])

\* "(x / len(self.events)) * 100"
Percentage(x, total) == [num |-> x * 100, den |-> total]

\* analyze_efficiency_metrics; the dict {} of the empty case is [empty |-> TRUE]
AnalyzeEfficiencyMetrics(evs) ==
    IF evs = <<>> THEN [empty |-> TRUE]
    ELSE LET active_duration == CalculateActiveTypingDuration(evs)
             burst_events == {i \in Indices(evs) : evs[i].typing_burst}
             correction_events == {i \in Indices(evs) : evs[i].is_correction}
         IN [empty |-> FALSE,
             overall_wpm |-> calculate_wpm(evs, active_duration),
             session_duration |-> active_duration,
             burst_typing_percentage |-> Percentage(Cardinality(burst_events), Len(evs)),
             flow_state_periods |-> DetectFlowStates(evs, flow_state_threshold),
             efficiency_ratio |->
                 Percentage(Len(evs) - Cardinality(correction_events), Len(evs)),
             correction_percentage |->
                 Percentage(Cardinality(correction_events), Len(evs))]

\* the dict appended to correction_sequences for the run evs[first..last] of
\* correction events: corrected_chars keeps the truthy corrected_text values
CorrectionSequence(evs, first, last) ==
    [length |-> last - first + 1,
     timestamp |-> evs[first].timestamp,
     corrected_chars |-> SelectSeq([i \in 1..(last - first + 1) |-> evs[first + i - 1].corrected_text],
                                   LAMBDA t : t # <<>>)]

\* the loop over the events from position pos on: a sequence is closed by the
\* first event that is not a correction, or by the end of the stream
RECURSIVE CorrectionSequencesFrom(_, _)
CorrectionSequencesFrom(evs, pos) ==
    LET starts == {i \in pos..Len(evs) : evs[i].is_correction}
    IN IF starts = {} THEN <<>>
       ELSE LET first == CHOOSE i \in starts : \A j \in starts : i <= j
                ends == {j \in (first + 1)..Len(evs) : ~evs[j].is_correction}
                last == IF ends = {} THEN Len(evs)
                        ELSE (CHOOSE j \in ends : \A k \in ends : j <= k) - 1
            IN <<CorrectionSequence(evs, first, last)>> \o CorrectionSequencesFrom(evs, last + 1)

\* the variant that scores every sequence
ScoresAlways(seq) == TRUE

\* "if len(seq['corrected_chars']) > 0": the sequences that get a score
Scores(seq) == Len(seq.corrected_chars) > 0

RECURSIVE ProdSeq(_)
ProdSeq(s) == IF s = <<>> THEN 1 ELSE Head(s) * ProdSeq(Tail(s))

\* statistics.mean of 1.0 / length over the given lengths, exact; 0 for none
MeanOfInverses(lengths) ==
    IF lengths = <<>> THEN [num |-> 0, den |-> 1]
    ELSE LET product == ProdSeq(lengths)
         IN [num |-> SumSeq([i \in 1..Len(lengths) |-> product \div lengths[i]]),
             den |-> Len(lengths) * product]

\* avg_correction_efficiency
CorrectionEfficiency(correction_sequences) ==
    LET scored == SelectSeq(correction_sequences, Scores)
    IN MeanOfInverses([i \in 1..Len(scored) |-> scored[i].length])

\* analyze_error_patterns: total_corrections, total_keystrokes,
\* overall_error_rate, correction_sequences, correction_efficiency
AnalyzeErrorPatterns(evs) ==
    LET total_corrections == Cardinality({i \in Indices(evs) : evs[i].is_correction})
        correction_sequences == CorrectionSequencesFrom(evs, 1)
    IN [total_corrections |-> total_corrections,
        total_keystrokes |-> Len(evs),
        overall_error_rate |-> IF Len(evs) > 0 THEN Percentage(total_corrections, Len(evs))
                               ELSE [num |-> 0, den |-> 1],
        correction_sequences |-> Len(correction_sequences),
        correction_efficiency |-> CorrectionEfficiency(correction_sequences)]

(***************************************************************************)
(* Specification of the aggregates: any stream of at most MaxAggEvents     *)
(* events, or the 100-event stream of the unit tests, then the three       *)
(* analyses in any order.                                                  *)
(***************************************************************************)
AggKinds == {"a", "backspace", "delete", "shift"}

AggInputs == {[i \in 1..Len(k) |-> KeyEvent(i * 200, k[i])] :
                 k \in SeqsUpTo(AggKinds, MaxAggEvents)}

Alphabet == <<"a", "b", "c", "d", "e", "f", "g", "h", "i", "j", "k", "l", "m",
              "n", "o", "p", "q", "r", "s", "t", "u", "v", "w", "x", "y", "z">>

\* the sample_events fixture of tests/test_analyzer.py (i from 0), the time
\* origin moved to 0
SampleEvent(i) ==
    KeystrokeEvent(i * 200, Alphabet[(i % 26) + 1], Alphabet[(i % 26) + 1],
                   i % 10 = 9, IF i % 5 = 0 THEN 100 ELSE 50, i % 3 # 0)

SampleEvents == [n \in 1..100 |-> SampleEvent(n - 1)]

InitAggregates ==
    /\ events \in AggInputs \cup {SampleEvents}
    /\ AnalyzerInit
    /\ KeyloggerInit
    /\ RestInit

RunAnalyzeKeyUsage ==
    /\ agg_out.key_usage = <<>>
    /\ agg_out' = [agg_out EXCEPT !.key_usage = <<AnalyzeKeyUsage(events)>>]
    /\ UNCHANGED <<events, pc, min_keystrokes, sessions_out, flow_out, words_out, keyloggerVars, restVars>>

RunAnalyzeEfficiencyMetrics ==
    /\ agg_out.efficiency = <<>>
    /\ agg_out' = [agg_out EXCEPT !.efficiency = <<AnalyzeEfficiencyMetrics(events)>>]
    /\ UNCHANGED <<events, pc, min_keystrokes, sessions_out, flow_out, words_out, keyloggerVars, restVars>>

RunAnalyzeErrorPatterns ==
    /\ agg_out.error_patterns = <<>>
    /\ agg_out' = [agg_out EXCEPT !.error_patterns = <<AnalyzeErrorPatterns(events)>>]
    /\ UNCHANGED <<events, pc, min_keystrokes, sessions_out, flow_out, words_out, keyloggerVars, restVars>>

NextAggregates ==
    \/ RunAnalyzeKeyUsage
    \/ RunAnalyzeEfficiencyMetrics
    \/ RunAnalyzeErrorPatterns

SpecAggregates == InitAggregates /\ [][NextAggregates]_vars

NumCorrections == Cardinality({i \in Indices(events) : events[i].is_correction})

WordEfficiencyEntry(length, count) ==
    [frequency |-> count,
     total_keystrokes |-> length * count,
     potential_shortcuts |-> length > 6]

Opportunity(type, priority, counts_keystrokes, savings) ==
    [type |-> type, priority |-> priority,
     counts_keystrokes |-> counts_keystrokes, savings |-> savings]

\* the slice s[:n]
Take(s, n) == SubSeq(s, 1, IF Len(s) < n THEN Len(s) ELSE n)

\* "[:5]" of rule 2 and of rule 3
sequence_slice == 5
phrase_slice == 5

\* 1. shortcut opportunities for frequent long words
TextShortcuts(word_efficiency) ==
    LET candidate(data) == data.potential_shortcuts /\ data.frequency >= 5
        found == SelectSeq(word_efficiency, candidate)
    IN [i \in 1..Len(found) |->
           Opportunity("text_shortcut",
                       IF found[i].frequency > 10 THEN "high" ELSE "medium",
                       TRUE,
                       found[i].total_keystrokes - found[i].frequency * 3)]

\* 2. same-finger sequences; same_finger_sequences is the list of the counts
FingerOptimizations(same_finger_sequences) ==
    LET frequent(count) == count >= 3
        found == SelectSeq(Take(same_finger_sequences, sequence_slice), frequent)
    IN [i \in 1..Len(found) |-> Opportunity("finger_optimization", "medium", FALSE, 0)]

\* 3. common phrase shortcuts; a bigram is [phrase_length, count], phrase_length
\* the length of the phrase without its space
PhraseShortcuts(most_frequent_bigrams) ==
    LET worth(b) == b.count >= 3 /\ b.count * (b.phrase_length - 4) > 20
        found == SelectSeq(Take(most_frequent_bigrams, phrase_slice), worth)
    IN [i \in 1..Len(found) |->
           Opportunity("phrase_shortcut",
                       IF found[i].count > 5 THEN "high" ELSE "medium",
                       TRUE,
                       found[i].count * (found[i].phrase_length - 4))]

\* 4. hand balance: "abs(left_percentage - right_percentage) > 20"
HandBalanceOpportunity(hand_balance) ==
    LET total_keystrokes == hand_balance.left + hand_balance.right + hand_balance.thumbs
        difference == IF hand_balance.left >= hand_balance.right
                      THEN hand_balance.left - hand_balance.right
                      ELSE hand_balance.right - hand_balance.left
    IN IF total_keystrokes > 0 /\ difference * 100 > 20 * total_keystrokes
       THEN <<Opportunity("hand_balance", "medium", FALSE, 0)>>
       ELSE <<>>

\* 5. flow states: "avg_flow_duration < 120", durations in milliseconds
FlowOptimization(flow_durations) ==
    IF flow_durations # <<>> /\ SumSeq(flow_durations) < 120000 * Len(flow_durations)
    THEN <<Opportunity("flow_optimization", "high", FALSE, 0)>>
    ELSE <<>>

\* "priority_order.get(x['priority'], 2)"
priority_order(priority) ==
    CASE priority = "high" -> 0
      [] priority = "medium" -> 1
      [] OTHER -> 2

\* the variant that sorts by priority and reverses the items of equal priority
SortByPriorityReversed(opportunities) ==
    LET reversed == [i \in 1..Len(opportunities) |-> opportunities[Len(opportunities) + 1 - i]]
        rank0(o) == priority_order(o.priority) = 0
        rank1(o) == priority_order(o.priority) = 1
        rank2(o) == priority_order(o.priority) = 2
    IN SelectSeq(reversed, rank0) \o SelectSeq(reversed, rank1) \o SelectSeq(reversed, rank2)

\* list.sort with the priority key: stable
SortByPriority(opportunities) ==
    LET rank0(o) == priority_order(o.priority) = 0
        rank1(o) == priority_order(o.priority) = 1
        rank2(o) == priority_order(o.priority) = 2
    IN SelectSeq(opportunities, rank0) \o SelectSeq(opportunities, rank1)
       \o SelectSeq(opportunities, rank2)

\* "opportunities[:10]"
top_opportunities == 10

\* the variant that returns the whole list
WholeList(opportunities) == opportunities

TopOpportunities(opportunities) == Take(opportunities, top_opportunities)

\* the list 'opportunities' when the five rules have run, before the sort
FoundOpportunities(word_efficiency, same_finger_sequences, most_frequent_bigrams, hand_balance, flow_durations) ==
    TextShortcuts(word_efficiency)
    \o FingerOptimizations(same_finger_sequences)
    \o PhraseShortcuts(most_frequent_bigrams)
    \o HandBalanceOpportunity(hand_balance)
    \o FlowOptimization(flow_durations)

\* the variant that sorts and cuts the list first and counts what is left
AnalyzeTopOpportunities(word_efficiency, same_finger_sequences, most_frequent_bigrams, hand_balance, flow_durations) ==
    LET opportunities ==
            TopOpportunities(SortByPriority(FoundOpportunities(
                word_efficiency, same_finger_sequences, most_frequent_bigrams,
                hand_balance, flow_durations)))
    IN [total_opportunities |-> Len(opportunities),
        high_priority |->
            Cardinality({i \in Indices(opportunities) : opportunities[i].priority = "high"}),
        medium_priority |->
            Cardinality({i \in Indices(opportunities) : opportunities[i].priority = "medium"}),
        opportunities |-> opportunities,
        estimated_total_savings |->
            SumSeq([i \in 1..Len(opportunities) |->
                       IF opportunities[i].counts_keystrokes
                       THEN opportunities[i].savings ELSE 0])]

AnalyzeOptimizationOpportunities(word_efficiency, same_finger_sequences, most_frequent_bigrams, hand_balance, flow_durations) ==
    LET opportunities ==
            SortByPriority(FoundOpportunities(
                word_efficiency, same_finger_sequences, most_frequent_bigrams,
                hand_balance, flow_durations))
    IN [total_opportunities |-> Len(opportunities),
        high_priority |->
            Cardinality({i \in Indices(opportunities) : opportunities[i].priority = "high"}),
        medium_priority |->
            Cardinality({i \in Indices(opportunities) : opportunities[i].priority = "medium"}),
        opportunities |-> TopOpportunities(opportunities),
        estimated_total_savings |->
            SumSeq([i \in 1..Len(opportunities) |->
                       IF opportunities[i].counts_keystrokes
                       THEN opportunities[i].savings ELSE 0])]

(***************************************************************************)
(* Specification of the opportunity ranking: one call, on any results of   *)
(* the analyses within the bounds.  The lists are in the order of          *)
(* Counter.most_common, the largest count first.                           *)
(***************************************************************************)
\* a long frequent word, two long words, a short word, a word typed 4 times
WordEntryKinds ==
    {WordEfficiencyEntry(7, 11), WordEfficiencyEntry(7, 5), WordEfficiencyEntry(8, 5),
     WordEfficiencyEntry(6, 5), WordEfficiencyEntry(7, 4)}

WordEfficiencyInputs ==
    {s \in SeqsUpTo(WordEntryKinds, MaxWordEntries) :
        \A i \in 1..(Len(s) - 1) : s[i].frequency >= s[i+1].frequency}

SameFingerInputs ==
    {s \in SeqsUpTo({2, 3}, MaxSameFinger) : \A i \in 1..(Len(s) - 1) : s[i] >= s[i+1]}

\* a frequent phrase, a long phrase, a phrase that saves too little, a rare one
BigramKinds ==
    {[phrase_length |-> 8, count |-> 6], [phrase_length |-> 11, count |-> 3],
     [phrase_length |-> 8, count |-> 3], [phrase_length |-> 11, count |-> 2]}

BigramInputs ==
    {s \in SeqsUpTo(BigramKinds, MaxBigrams) :
        \A i \in 1..(Len(s) - 1) : s[i].count >= s[i+1].count}

\* no key of either hand, a balanced use with the right hand ahead, an imbalance
HandBalanceInputs ==
    {[left |-> 0, right |-> 0, thumbs |-> 0], [left |-> 1, right |-> 2, thumbs |-> 7],
     [left |-> 3, right |-> 1, thumbs |-> 0]}

\* no flow period, two of 80 s on average, one of exactly 2 minutes
FlowDurationInputs == {<<>>, <<60000, 100000>>, <<120000>>}

InitOpportunities ==
    /\ events = <<>>
    /\ AnalyzerInit
    /\ KeyloggerInit
    /\ RestInit

RunAnalyzeOptimizationOpportunities ==
    /\ agg_out.optimization_opportunities = <<>>
    /\ \E word_efficiency \in WordEfficiencyInputs,
          same_finger_sequences \in SameFingerInputs,
          most_frequent_bigrams \in BigramInputs,
          hand_balance \in HandBalanceInputs,
          flow_durations \in FlowDurationInputs :
          agg_out' = [agg_out EXCEPT
                         !.found_opportunities =
                             <<FoundOpportunities(
                                   word_efficiency, same_finger_sequences,
                                   most_frequent_bigrams, hand_balance, flow_durations)>>,
                         !.optimization_opportunities =
                             <<AnalyzeOptimizationOpportunities(
                                   word_efficiency, same_finger_sequences,
                                   most_frequent_bigrams, hand_balance, flow_durations)>>]
    /\ UNCHANGED <<events, pc, min_keystrokes, sessions_out, flow_out, words_out, keyloggerVars, restVars>>

NextOpportunities == RunAnalyzeOptimizationOpportunities

SpecOpportunities == InitOpportunities /\ [][NextOpportunities]_vars

\* C9: the 'opportunities' list that analyze_optimization_opportunities returns
\* has at most 10 items, and the priority of each item is 'high' or 'medium'.
C9_TopTen ==
    agg_out.optimization_opportunities # <<>> =>
        LET result == agg_out.optimization_opportunities[1]
        IN /\ Len(result.opportunities) <= 10
           /\ \A i \in Indices(result.opportunities) :
                  result.opportunities[i].priority \in {"high", "medium"}

\* more than 10 opportunities were found, of both priorities, and 10 returned
C9_Witness ==
    /\ agg_out.optimization_opportunities # <<>>
    /\ LET result == agg_out.optimization_opportunities[1]
       IN /\ result.total_opportunities > 10
          /\ Len(result.opportunities) = 10
          /\ result.opportunities[1].priority = "high"
          /\ result.opportunities[10].priority = "medium"

(***************************************************************************)
(* The other analyses run_full_analysis calls (src/src/analyzer.py), with  *)
(* the counts of their results.  finger_assignment and                     *)
(* cognitive_load_indicator are the values on_key_release stores in the    *)
(* event (src/src/keylogger.py), for an application that is neither a      *)
(* terminal nor a mail client.                                             *)
(***************************************************************************)
\* the elements of a finite set of integers, smallest first
RECURSIVE Ascending(_)
Ascending(S) ==
    IF S = {} THEN <<>>
    ELSE LET least == CHOOSE x \in S : \A y \in S : x <= y
         IN <<least>> \o Ascending(S \ {least})

\* Counter(items).most_common(): [item, count], the largest count first and
\* equal counts in the order of first occurrence
MostCommon(items) ==
    LET firsts == Ascending({i \in Indices(items) : \A j \in 1..(i - 1) : items[j] # items[i]})
        counted == [k \in 1..Len(firsts) |->
                       [item |-> items[firsts[k]],
                        count |-> Cardinality({i \in Indices(items) :
                                                  items[i] = items[firsts[k]]})]]
    IN Concat([k \in 1..Len(items) |->
                  LET with_count(entry) == entry.count = Len(items) + 1 - k
                  IN SelectSeq(counted, with_count)])

\* FINGER_MAP of src/src/utils.py, on key.lower()
FINGER_MAP(key) ==
    CASE key \in {"q", "a", "z", "1", "tab", "caps"} -> "left_pinky"
      [] key \in {"w", "s", "x", "2"} -> "left_ring"
      [] key \in {"e", "d", "c", "3"} -> "left_middle"
      [] key \in {"r", "f", "v", "4", "t", "g", "b", "5"} -> "left_index"
      [] key \in {"y", "h", "n", "6", "u", "j", "m", "7"} -> "right_index"
      [] key \in {"i", "k", ",", "8"} -> "right_middle"
      [] key \in {"o", "l", ".", "9"} -> "right_ring"
      [] key \in {"p", ";", "/", "0", "return", "delete", "backspace"} -> "right_pinky"
      [] key = " " -> "thumbs"
      [] key \in {"shift", "ctrl"} -> "pinky"
      [] key \in {"cmd", "alt"} -> "thumb"
      [] OTHER -> "unknown"

\* "finger_assignment=get_finger_for_key(key_char or key_name)"
finger_assignment(event) ==
    FINGER_MAP(LowerChar(IF event.key_char # "" THEN event.key_char ELSE event.key_name))

\* '"left" in finger', '"right" in finger', 'finger in ["thumbs", "thumb"]'
HandOf(finger) ==
    CASE finger \in {"left_pinky", "left_ring", "left_middle", "left_index"} -> "left"
      [] finger \in {"right_index", "right_middle", "right_ring", "right_pinky"} -> "right"
      [] finger \in {"thumbs", "thumb"} -> "thumbs"
      [] OTHER -> "none"

\* analyze_finger_usage: hand_balance
AnalyzeFingerUsage(evs) ==
    LET on_hand(hand) == Cardinality({i \in Indices(evs) : HandOf(finger_assignment(evs[i])) = hand})
    IN [hand_balance |-> [left |-> on_hand("left"), right |-> on_hand("right"),
                          thumbs |-> on_hand("thumbs")]]

\* analyze_hesitation_patterns: total_pauses and long_pauses (above 2 s)
AnalyzeHesitationPatterns(evs) ==
    [total_pauses |-> Cardinality({i \in Indices(evs) : evs[i].pause_before > 0}),
     long_pauses |-> Cardinality({i \in Indices(evs) : evs[i].pause_before > 2000})]

\* _calculate_cognitive_load: min(pause / 2.0, 1.0), as a fraction of 2000 ms
cognitive_load_indicator(event) ==
    IF event.pause_before < 2000 THEN event.pause_before ELSE 2000

\* analyze_cognitive_load: high_load_events (load above 0.7)
AnalyzeCognitiveLoad(evs) ==
    [high_load_events |->
         Cardinality({i \in Indices(evs) : cognitive_load_indicator(evs[i]) * 10 > 7 * 2000})]

\* analyze_key_combinations: same_finger_sequences, the 15 most common pairs of
\* characters typed with one finger
AnalyzeKeyCombinations(evs) ==
    LET same == {i \in 1..(Len(evs) - 1) :
                    /\ finger_assignment(evs[i]) = finger_assignment(evs[i+1])
                    /\ evs[i].key_char # "" /\ evs[i+1].key_char # ""}
        order == Ascending(same)
        same_finger_sequences ==
            [k \in 1..Len(order) |-> <<evs[order[k]].key_char, evs[order[k] + 1].key_char>>]
    IN [same_finger_sequences |-> Take(MostCommon(same_finger_sequences), 15),
        inefficient_sequences |-> Len(same_finger_sequences)]

\* analyze_word_patterns: text_segments, the bigrams of consecutive segments
\* and word_efficiency for the words typed at least 3 times
WordPatterns(evs) ==
    LET text_segments == AnalyzeWordPatterns(evs)
        bigrams == [i \in 1..(Len(text_segments) - 1) |->
                       <<text_segments[i], text_segments[i+1]>>]
        word_counts == Take(MostCommon(text_segments), 20)
        often(entry) == entry.count >= 3
        analysed == SelectSeq(word_counts, often)
    IN [text_segments |-> text_segments,
        total_words |-> Len(text_segments),
        most_frequent_bigrams |-> Take(MostCommon(bigrams), 10),
        word_efficiency |->
            [k \in 1..Len(analysed) |->
                WordEfficiencyEntry(Len(analysed[k].item), analysed[k].count)]]

\* analyze_optimization_opportunities on the events: the four analyses it
\* calls, then the ranking
OptimizationOpportunities(evs) ==
    LET word_patterns == WordPatterns(evs)
        key_combinations == AnalyzeKeyCombinations(evs)
        finger_usage == AnalyzeFingerUsage(evs)
        efficiency_metrics == AnalyzeEfficiencyMetrics(evs)
        flow_periods == IF efficiency_metrics.empty THEN <<>>
                        ELSE efficiency_metrics.flow_state_periods
    IN AnalyzeOptimizationOpportunities(
           word_patterns.word_efficiency,
           [k \in 1..Len(key_combinations.same_finger_sequences) |->
               key_combinations.same_finger_sequences[k].count],
           [k \in 1..Len(word_patterns.most_frequent_bigrams) |->
               [phrase_length |-> Len(word_patterns.most_frequent_bigrams[k].item[1])
                                  + Len(word_patterns.most_frequent_bigrams[k].item[2]),
                count |-> word_patterns.most_frequent_bigrams[k].count]],
           finger_usage.hand_balance,
           [k \in 1..Len(flow_periods) |-> flow_periods[k].duration_seconds])

(***************************************************************************)
(* run_full_analysis (src/src/analyzer.py).  A dict is the function of its *)
(* keys, {} the function of no key.                                        *)
(***************************************************************************)
\* the keys of analysis_results that hold the result of an analysis component
AnalysisSections ==
    {"key_usage", "hesitation_patterns", "efficiency_metrics", "finger_usage",
     "cognitive_load", "error_patterns", "word_patterns", "key_combinations",
     "optimization_opportunities", "session_analysis"}

\* what the request to the API can come to: an answer with a text, an answer
\* without content (the function then returns None), an error status, a
\* timeout, a failed request, any other exception
ClaudeOutcomes ==
    {"success", "none", "api_error", "timeout", "request_error", "unexpected_error"}

\* Python's None: a value that is no dict and has no key
None == [none |-> TRUE]

\* analyze_with_claude: the three early returns, then the request; with the
\* answer 200 and no content no return statement is reached
analyze_with_claude(config, outcome, now) ==
    IF config # "ready" THEN [status |-> config]
    ELSE IF outcome = "success"
    THEN [status |-> "success", claude_analysis |-> "text", timestamp |-> now]
    ELSE IF outcome = "none" THEN None
    ELSE [status |-> outcome]

\* the variant that leaves the session analysis out of the result
ResultsWithoutSessions(evs, now) ==
    [metadata |-> [analysis_timestamp |-> now,
                   total_events |-> Len(evs),
                   time_range |-> [start |-> evs[1].timestamp,
                                   end |-> evs[Len(evs)].timestamp]],
     key_usage |-> AnalyzeKeyUsage(evs),
     hesitation_patterns |-> AnalyzeHesitationPatterns(evs),
     efficiency_metrics |-> AnalyzeEfficiencyMetrics(evs),
     finger_usage |-> AnalyzeFingerUsage(evs),
     cognitive_load |-> AnalyzeCognitiveLoad(evs),
     error_patterns |-> AnalyzeErrorPatterns(evs),
     word_patterns |-> WordPatterns(evs),
     key_combinations |-> AnalyzeKeyCombinations(evs),
     optimization_opportunities |-> OptimizationOpportunities(evs)]

\* the variant that takes the end of the time range from the clock
ResultsEndingNow(evs, now) ==
    [metadata |-> [analysis_timestamp |-> now,
                   total_events |-> Len(evs),
                   time_range |-> [start |-> evs[1].timestamp, end |-> now]],
     key_usage |-> AnalyzeKeyUsage(evs),
     hesitation_patterns |-> AnalyzeHesitationPatterns(evs),
     efficiency_metrics |-> AnalyzeEfficiencyMetrics(evs),
     finger_usage |-> AnalyzeFingerUsage(evs),
     cognitive_load |-> AnalyzeCognitiveLoad(evs),
     error_patterns |-> AnalyzeErrorPatterns(evs),
     word_patterns |-> WordPatterns(evs),
     key_combinations |-> AnalyzeKeyCombinations(evs),
     optimization_opportunities |-> OptimizationOpportunities(evs),
     session_analysis |-> [sessions |-> AnalyzeSessions(evs)]]

\* "self.analysis_results = { ... }": metadata and the ten sections
AnalysisResults(evs, now) ==
    [metadata |-> [analysis_timestamp |-> now,
                   total_events |-> Len(evs),
                   time_range |-> [start |-> evs[1].timestamp,
                                   end |-> evs[Len(evs)].timestamp]],
     key_usage |-> AnalyzeKeyUsage(evs),
     hesitation_patterns |-> AnalyzeHesitationPatterns(evs),
     efficiency_metrics |-> AnalyzeEfficiencyMetrics(evs),
     finger_usage |-> AnalyzeFingerUsage(evs),
     cognitive_load |-> AnalyzeCognitiveLoad(evs),
     error_patterns |-> AnalyzeErrorPatterns(evs),
     word_patterns |-> WordPatterns(evs),
     key_combinations |-> AnalyzeKeyCombinations(evs),
     optimization_opportunities |-> OptimizationOpportunities(evs),
     session_analysis |-> [sessions |-> AnalyzeSessions(evs)]]

\* the claude_insights entry added after the sections
ClaudeInsights(results, config, outcome, now) ==
    IF results.word_patterns.text_segments # <<>>
    THEN analyze_with_claude(config, outcome, now)
    ELSE [status |-> "no_text_segments"]

\* run_full_analysis: the clock is read once for the metadata and once more
\* when the API answers
RunFullAnalysis ==
    /\ Len(returned) < MaxRuns
    /\ IF events = <<>>
       THEN /\ returned' = Append(returned, <<>>)
            /\ invoked' = {}
            /\ UNCHANGED <<analysis_results, clock>>
       ELSE \E results \in {AnalysisResults(events, clock + 1)} :
            \E outcome \in ClaudeOutcomes :
            \E insights \in {ClaudeInsights(results, claude_config, outcome, clock + 2)} :
            \E full \in {WithKey(results, "claude_insights", insights)} :
               /\ analysis_results' = full
               /\ returned' = Append(returned, full)
               /\ invoked' = AnalysisSections
               /\ clock' = clock + 2
    /\ UNCHANGED <<analyzerVars, keyloggerVars, claude_config, storeVars, wpmVars, monitorVars, reportVars, threadVars>>

(***************************************************************************)
(* Specification of the full analysis: any stream of at most MaxRunEvents  *)
(* keys and any configuration of the API, then at most MaxRuns calls of    *)
(* run_full_analysis on the same analyzer.                                 *)
(***************************************************************************)
RunKeys == {"a", "f", " ", "backspace"}

RunInputs == {Typed(k) : k \in SeqsUpTo(RunKeys, MaxRunEvents)}

InitRun ==
    /\ events \in RunInputs
    /\ AnalyzerInit
    /\ KeyloggerInit
    /\ analysis_results = <<>>
    /\ returned = <<>>
    /\ invoked = {}
    /\ clock = 0
    /\ claude_config \in {"no_requests", "disabled", "no_api_key", "ready"}
    /\ DataManagerInit
    /\ WpmInit
    /\ MonitorInit
    /\ ReportInit
    /\ ThreadInit

NextRun == RunFullAnalysis

SpecRun == InitRun /\ [][NextRun]_vars

\* C11: run_full_analysis on an empty event list returns {} and calls no
\* analysis component; every value it returns is {} or has the metadata and
\* all ten analysis sections, never a part of them.
C11_EmptyOrFull ==
    /\ \A i \in Indices(returned) :
          \/ DOMAIN returned[i] = {}
          \/ AnalysisSections \cup {"metadata"} \subseteq DOMAIN returned[i]
    /\ returned # <<>> =>
          /\ events = <<>> => /\ DOMAIN returned[Len(returned)] = {}
                              /\ invoked = {}
          /\ events # <<>> => DOMAIN returned[Len(returned)] # {}

\* the analysis ran on the empty list and returned {}
C11_Witness ==
    /\ events = <<>>
    /\ returned # <<>>
    /\ DOMAIN returned[1] = {}
    /\ invoked = {}

MaximalRun(a, b) ==
    /\ 1 <= a /\ a < b /\ b <= Len(events)
    /\ \A i \in (a + 1)..b : GapBefore(i) <= long_pause
    /\ a = 1 \/ GapBefore(a) > long_pause
    /\ b = Len(events) \/ GapBefore(b + 1) > long_pause

\* C17: every session holds at least 2 events and is a maximal run of the
\* input: no gap inside it exceeds the long-pause threshold, the gap after its
\* last event (if any) exceeds it, and a gap exactly equal to the threshold
\* does not split: the two events around it lie in one session.
C17_MaximalRuns ==
    pc = "done" =>
        /\ \A k \in Indices(sessions_out) :
              /\ sessions_out[k].total_keystrokes >= 2
              /\ Len(sessions_out[k].session_events) = sessions_out[k].total_keystrokes
              /\ \E a, b \in Indices(events) :
                    /\ MaximalRun(a, b)
                    /\ sessions_out[k].session_events = SubSeq(events, a, b)
                    /\ sessions_out[k].start_timestamp = events[a].timestamp
                    /\ sessions_out[k].end_timestamp = events[b].timestamp
        /\ \A i \in 2..Len(events) :
              GapBefore(i) = long_pause =>
                 \E k \in Indices(sessions_out) : \E a, b \in Indices(events) :
                    /\ a < i /\ i <= b
                    /\ sessions_out[k].session_events = SubSeq(events, a, b)
                    /\ sessions_out[k].start_timestamp = events[a].timestamp
                    /\ sessions_out[k].end_timestamp = events[b].timestamp

\* two sessions split by a gap just above the threshold, the first holding a
\* gap exactly equal to it
C17_Witness ==
    /\ pc = "done"
    /\ Len(sessions_out) = 2
    /\ Len(events) = 4
    /\ GapBefore(2) = long_pause
    /\ GapBefore(3) = long_pause + 1
    /\ sessions_out[1].session_events = SubSeq(events, 1, 2)
    /\ sessions_out[2].session_events = SubSeq(events, 3, 4)

\* the sum of the gaps of at most 30 s between the events a..b of the input
RECURSIVE ShortGapSum(_, _)
ShortGapSum(a, b) ==
    IF a >= b THEN 0
    ELSE (IF GapBefore(b) <= 30000 THEN GapBefore(b) ELSE 0) + ShortGapSum(a, b - 1)

\* C18: the active duration of a session is the sum of its gaps of at most
\* 30 s, unless that sum is below 10% of the raw span, and then it is the raw
\* span; so it is strictly positive whenever the raw span is.
C18_ActiveDuration ==
    pc = "done" =>
        \A k \in Indices(sessions_out) :
            LET s == sessions_out[k]
                span == s.end_timestamp - s.start_timestamp
            IN /\ \E a, b \in Indices(events) :
                     /\ s.session_events = SubSeq(events, a, b)
                     /\ s.start_timestamp = events[a].timestamp
                     /\ s.end_timestamp = events[b].timestamp
                     /\ s.active_duration =
                           IF 10 * ShortGapSum(a, b) < span THEN span
                           ELSE ShortGapSum(a, b)
               /\ s.total_duration = span
               /\ span > 0 => s.active_duration > 0

\* a session whose only gaps are above 30 s (the fallback gives the raw span)
\* next to one whose active duration is the sum of its short gaps, a longer
\* gap left out
C18_Witness ==
    /\ pc = "done"
    /\ \E k \in Indices(sessions_out) :
          /\ sessions_out[k].total_duration = 31000
          /\ sessions_out[k].active_duration = 31000
    /\ \E k \in Indices(sessions_out) :
          /\ sessions_out[k].active_duration > 0
          /\ sessions_out[k].active_duration < sessions_out[k].total_duration

(***************************************************************************)
(* Specification of the rolling buffer: at most MaxRollingKeys key         *)
(* releases, each a new letter, a backspace or the shift key (released     *)
(* once before another key follows).                                       *)
(***************************************************************************)
\* the letters typed, by position, all different
RollingLetters == <<"a", "b", "c", "d", "e", "f", "g", "h", "i", "j", "k", "l", "m">>

RollingKeys ==
    {RollingLetters[Len(captured) + 1], "backspace"}
    \cup (IF captured # <<>> /\ captured[Len(captured)].key_name = "shift"
          THEN {} ELSE {"shift"})

InitRolling ==
    /\ events = <<>>
    /\ AnalyzerInit
    /\ KeyloggerInit
    /\ RestInit

NextRolling ==
    /\ Len(captured) < MaxRollingKeys
    /\ \E key \in RollingKeys : OnKeyRelease(key)

SpecRolling == InitRolling /\ [][NextRolling]_vars

\* the printable characters typed in the first n events and not deleted by a
\* later correction among them, in typing order
RECURSIVE NotYetPopped(_)
NotYetPopped(n) ==
    IF n = 0 THEN <<>>
    ELSE LET before == NotYetPopped(n - 1)
             e == captured[n]
         IN IF e.is_correction
            THEN (IF before = <<>> THEN <<>> ELSE SubSeq(before, 1, Len(before) - 1))
            ELSE IF e.key_char # "" /\ IsPrintable(e.key_char) THEN Append(before, e.key_char)
            ELSE before

PrintablePushes == {i \in Indices(captured) :
                       ~captured[i].is_correction /\ captured[i].key_char # ""}

\* C19: recent_keystrokes holds at most 10 characters, the most recent of the
\* printable non-correction characters not yet popped by a correction, in
\* typing order (all of them while no more than 10 were pushed); with no
\* correction it is the last 10 characters typed, so an 11th push drops the
\* oldest.
C19_RollingBuffer ==
    LET text == NotYetPopped(Len(captured))
    IN /\ Len(recent_keystrokes) <= recent_capacity
       /\ Len(recent_keystrokes) <= Len(text)
       /\ recent_keystrokes = LastN(text, Len(recent_keystrokes))
       /\ Cardinality(PrintablePushes) <= recent_capacity => recent_keystrokes = text
       /\ (\A i \in Indices(captured) : ~captured[i].is_correction)
             => recent_keystrokes = LastN(text, recent_capacity)

\* eleven letters typed: the buffer holds the last ten, the first is gone
C19_Witness ==
    /\ Len(captured) = 11
    /\ Cardinality(PrintablePushes) = 11
    /\ Len(recent_keystrokes) = 10
    /\ recent_keystrokes[1] = "b"
    /\ recent_keystrokes[10] = "k"

\* the event on_key_release has just built
LastCaptured == captured'[Len(captured')]

\* C20: a correction event removes exactly one character, the last, from a
\* non-empty rolling buffer and reports it as corrected_text with
\* correction_length 1; with an empty buffer it reports an empty
\* corrected_text and correction_length 0 and leaves the buffer empty; either
\* way it is classified single_correction or multi_correction.
C20_CorrectionPops ==
    [][(Len(captured') = Len(captured) + 1 /\ LastCaptured.is_correction) =>
          /\ LastCaptured.correction_type \in {"single_correction", "multi_correction"}
          /\ IF recent_keystrokes # <<>>
             THEN /\ Len(recent_keystrokes') = Len(recent_keystrokes) - 1
                  /\ recent_keystrokes' \o LastCaptured.corrected_text = recent_keystrokes
                  /\ LastCaptured.correction_length = 1
             ELSE /\ recent_keystrokes' = <<>>
                  /\ LastCaptured.corrected_text = <<>>
                  /\ LastCaptured.correction_length = 0]_vars

\* two letters, a correction that pops the second, one that pops the first,
\* and a third one on the empty buffer
C20_Witness ==
    /\ Len(captured) = 5
    /\ captured[3].corrected_text = <<"e">> /\ captured[3].correction_length = 1
    /\ captured[4].corrected_text = <<"t">> /\ captured[4].correction_length = 1
    /\ captured[5].is_correction
    /\ captured[5].corrected_text = <<>> /\ captured[5].correction_length = 0
    /\ captured[5].correction_type = "multi_correction"
    /\ recent_keystrokes = <<>>

(***************************************************************************)
(* Specification of the store: a buffer size of at most MaxBufferSize (the *)
(* attribute a caller can set, as the unit test does), at most MaxAdds     *)
(* events with growing timestamps, flushes and loads at any time.          *)
(***************************************************************************)
InitStore ==
    /\ events = <<>>
    /\ AnalyzerInit
    /\ KeyloggerInit
    /\ RunInit
    /\ WpmInit
    /\ MonitorInit
    /\ ReportInit
    /\ ThreadInit
    /\ buffer = <<>>
    /\ buffer_size \in 1..MaxBufferSize
    /\ files = <<>>
    /\ wall_second = 0
    /\ loaded = <<>>
    /\ added = <<>>
    /\ manual_flushes = 0

NextStore ==
    \/ AddKeystroke(CharEvent((Len(added) + 1) * 1000, "a"))
    \/ FlushBuffer
    \/ LoadData
    \/ NextSecond

SpecStore == InitStore /\ [][NextStore]_vars

\* C13: after a sequence of add_keystroke and flush_buffer calls that ends with
\* a flush (the buffer is empty), load_data returns exactly the events that
\* were added, in timestamp order.
C13_Original ==
    (loaded # <<>> /\ buffer = <<>>) => loaded[1] = added

\* the failing run of C13: two flushes in one second, the second file
\* replacing the first, and a load that misses the first batch
C13_Lost ==
    /\ loaded # <<>>
    /\ buffer = <<>>
    /\ Len(loaded[1]) < Len(added)

\* C14: after every add_keystroke the buffer holds fewer than buffer_size
\* events, and with no flush from outside it holds (number of adds) mod
\* buffer_size of them.
C14_BufferBelowSize ==
    /\ Len(buffer) < buffer_size
    /\ manual_flushes = 0 => Len(buffer) = Len(added) % buffer_size

\* five adds with a buffer size of three leave two events, as in
\* test_buffer_auto_flush
C14_Witness ==
    /\ manual_flushes = 0
    /\ buffer_size = 3
    /\ Len(added) = 5
    /\ Len(buffer) = 2
    /\ files # <<>>

(***************************************************************************)
(* Specification of the typing speed: calculate_wpm on any event list of   *)
(* at most MaxWpmEvents events and a duration that may be negative or      *)
(* zero, and the two analyses that report a speed per period.              *)
(***************************************************************************)
\* simultaneous events and events 1 s apart
WpmGaps == {0, 1000}

WpmInputs ==
    {<<>>} \cup {EventsFromGaps(CharEvent(0, "a"), g) :
                    g \in SeqsUpTo(WpmGaps, MaxWpmEvents - 1)}

\* durations: negative, zero, one second, one minute
WpmDurations == {-1000, 0, 1000, 60000}

InitWpm ==
    /\ events \in WpmInputs
    /\ min_keystrokes \in 0..2
    /\ pc = "ready"
    /\ sessions_out = <<>>
    /\ flow_out = <<>>
    /\ words_out = <<>>
    /\ agg_out = NoAggregates
    /\ KeyloggerInit
    /\ RunInit
    /\ DataManagerInit
    /\ MonitorInit
    /\ ReportInit
    /\ ThreadInit
    /\ wpm_duration \in WpmDurations
    /\ wpm_out = <<>>

RunCalculateWpm ==
    /\ pc = "ready"
    /\ wpm_out' = <<calculate_wpm(events, wpm_duration)>>
    /\ pc' = "done"
    /\ UNCHANGED <<events, min_keystrokes, sessions_out, flow_out, words_out, agg_out>>
    /\ UNCHANGED <<wpm_duration, keyloggerVars, runVars, storeVars, monitorVars, reportVars, threadVars>>

NextWpm ==
    \/ RunCalculateWpm
    \/ RunAnalyzeSessions
    \/ RunDetectFlowStates

SpecWpm == InitWpm /\ [][NextWpm]_vars

\* a speed that was computed without a division by zero and is not negative
WpmDefined(wpm) == wpm.den > 0 /\ wpm.num >= 0

\* C15: calculate_wpm returns 0 for a duration <= 0 and never divides by
\* zero; a session or a flow period whose events span no time reports a
\* speed of 0.
C15_ZeroDuration ==
    /\ wpm_out # <<>> =>
          /\ WpmDefined(wpm_out[1])
          /\ wpm_duration <= 0 => wpm_out[1].num = 0
    /\ \A i \in Indices(sessions_out) :
          /\ WpmDefined(sessions_out[i].wpm)
          /\ sessions_out[i].end_timestamp = sessions_out[i].start_timestamp
                => sessions_out[i].wpm.num = 0
    /\ \A i \in Indices(flow_out) :
          /\ WpmDefined(flow_out[i].wpm)
          /\ flow_out[i].end_time = flow_out[i].start_time => flow_out[i].wpm.num = 0

\* a session of several simultaneous letters, whose speed is 0
C15_Witness ==
    /\ sessions_out # <<>>
    /\ sessions_out[1].total_keystrokes >= 2
    /\ sessions_out[1].end_timestamp = sessions_out[1].start_timestamp
    /\ \A i \in Indices(sessions_out[1].session_events) :
          IsWpmChar(sessions_out[1].session_events[i])
    /\ sessions_out[1].wpm.num = 0

(***************************************************************************)
(* Monitoring life cycle (src/src/keylogger.py): start_monitoring, the     *)
(* periodic flush, the signal handler and stop_monitoring.  The signal     *)
(* handler runs in the main thread while it sleeps in its loop; the timers *)
(* and the listener run in threads of their own.                           *)
(***************************************************************************)
\* data_manager.flush_buffer() called by the keylogger
KeyloggerFlush ==
    /\ files' = FilesAfterFlush(files, buffer, wall_second)
    /\ buffer' = <<>>
    /\ loaded' = <<>>
    /\ flushed_after_signal' = signal_received'
    /\ UNCHANGED <<buffer_size, wall_second, added, manual_flushes>>

\* start_monitoring up to its while loop: the flag, the signal handlers, the
\* flush timer, the listener
StartMonitoring ==
    /\ monitor_pc = "idle"
    /\ ~is_running
    /\ is_running' = TRUE
    /\ flush_timer' = "pending"
    /\ listener' = "running"
    /\ monitor_pc' = "loop"
    /\ UNCHANGED <<signal_received, flushed_after_signal>>
    /\ UNCHANGED <<analyzerVars, keyloggerVars, runVars, storeVars, wpmVars, reportVars, threadVars>>

\* the listener thread delivers a key release
KeyReleased(key) ==
    /\ listener = "running"
    /\ Len(captured) < MaxKeys
    /\ OnKeyRelease(key)

\* _periodic_flush, its test of is_running
PeriodicFlushTest ==
    /\ flush_timer = "pending"
    /\ flush_timer' = IF is_running THEN "flushing" ELSE "off"
    /\ UNCHANGED <<is_running, monitor_pc, listener, signal_received, flushed_after_signal>>
    /\ UNCHANGED <<analyzerVars, keyloggerVars, runVars, storeVars, wpmVars, reportVars, threadVars>>

\* _periodic_flush, past the test: the flush and the next timer
PeriodicFlush ==
    /\ flush_timer = "flushing"
    /\ UNCHANGED signal_received
    /\ KeyloggerFlush
    /\ flush_timer' = "pending"
    /\ UNCHANGED <<is_running, monitor_pc, listener>>
    /\ UNCHANGED <<analyzerVars, keyloggerVars, runVars, wpmVars, reportVars, threadVars>>

\* stop_monitoring called with is_running = running: TRUE when it goes on to
\* flush, FALSE when it returns at once ("if not self.is_running: return")
StopMonitoringFlushes(running) == running

\* _signal_handler: the flag is cleared, the listener stopped, then
\* stop_monitoring is called
SignalHandler ==
    /\ monitor_pc = "loop"
    /\ ~signal_received
    /\ signal_received' = TRUE
    /\ is_running' = FALSE
    /\ listener' = "stopped"
    /\ IF StopMonitoringFlushes(is_running')
       THEN KeyloggerFlush
       ELSE UNCHANGED <<storeVars, flushed_after_signal>>
    /\ UNCHANGED <<monitor_pc, flush_timer>>
    /\ UNCHANGED <<analyzerVars, keyloggerVars, runVars, wpmVars, reportVars, threadVars>>

\* stop_monitoring called by the --duration timer while monitoring runs
StopMonitoring ==
    /\ monitor_pc = "loop"
    /\ StopMonitoringFlushes(is_running)
    /\ is_running' = FALSE
    /\ UNCHANGED signal_received
    /\ KeyloggerFlush
    /\ UNCHANGED <<monitor_pc, listener, flush_timer>>
    /\ UNCHANGED <<analyzerVars, keyloggerVars, runVars, wpmVars, reportVars, threadVars>>

\* "while self.is_running" ends; "self.listener.stop()"; start_monitoring
\* returns
MonitoringEnds ==
    /\ monitor_pc = "loop"
    /\ ~is_running
    /\ listener' = "stopped"
    /\ monitor_pc' = "returned"
    /\ UNCHANGED <<is_running, flush_timer, signal_received, flushed_after_signal>>
    /\ UNCHANGED <<analyzerVars, keyloggerVars, runVars, storeVars, wpmVars, reportVars, threadVars>>

(***************************************************************************)
(* Specification of a monitoring run: at most MaxKeys keys, a signal or    *)
(* the duration timer at any time.                                         *)
(***************************************************************************)
MonitorKeys == {"a", "backspace"}

InitMonitor ==
    /\ events = <<>>
    /\ AnalyzerInit
    /\ KeyloggerInit
    /\ RestInit

NextMonitor ==
    \/ StartMonitoring
    \/ \E key \in MonitorKeys : KeyReleased(key)
    \/ PeriodicFlushTest
    \/ PeriodicFlush
    \/ SignalHandler
    \/ StopMonitoring
    \/ MonitoringEnds

SpecMonitor == InitMonitor /\ [][NextMonitor]_vars

\* C16: when SIGINT or SIGTERM arrives while monitoring runs, flush_buffer is
\* called before monitoring ends, so the buffered keystrokes are saved.
C16_Original ==
    (signal_received /\ monitor_pc = "returned") => flushed_after_signal

\* the failing run of C16: monitoring has ended after a signal and keystrokes
\* are still in the buffer, in no file
C16_Lost ==
    /\ signal_received
    /\ monitor_pc = "returned"
    /\ buffer # <<>>
    /\ files = <<>>

(***************************************************************************)
(* Specification of the error patterns: any stream of at most              *)
(* MaxErrorEvents keys, with the corrected_text the capture recorded or    *)
(* without annotations (corrected_text None), then analyze_error_patterns. *)
(***************************************************************************)
ErrorKeys == {"a", "backspace", "shift"}

\* the capture state after the first n keys: recent_keystrokes,
\* last_key_was_correction and the value _detect_correction_sequence returned
RECURSIVE CaptureAfter(_, _)
CaptureAfter(keys, n) ==
    IF n = 0
    THEN [recent_keystrokes |-> <<>>, last_key_was_correction |-> FALSE]
    ELSE LET before == CaptureAfter(keys, n - 1)
         IN DetectCorrectionSequence(before.recent_keystrokes, before.last_key_was_correction,
                                     KeyChar(keys[n]), keys[n], IsCorrectionKey(keys[n]))

\* the events on_key_release records for the keys
Annotated(keys) ==
    [i \in 1..Len(keys) |->
        [KeyEvent(i * 100, keys[i]) EXCEPT
            !.corrected_text = CaptureAfter(keys, i).correction_data.corrected_text]]

ErrorInputs ==
    {Annotated(k) : k \in SeqsUpTo(ErrorKeys, MaxErrorEvents)}
    \cup {Typed(k) : k \in SeqsUpTo(ErrorKeys, MaxErrorEvents)}

InitErrors ==
    /\ events \in ErrorInputs
    /\ AnalyzerInit
    /\ KeyloggerInit
    /\ RestInit

NextErrors == RunAnalyzeErrorPatterns

SpecErrors == InitErrors /\ [][NextErrors]_vars

\* the maximal contiguous runs of correction events, as <<first, last>>
CorrectionRuns ==
    {r \in Indices(events) \X Indices(events) :
        /\ r[1] <= r[2]
        /\ \A i \in r[1]..r[2] : events[i].is_correction
        /\ r[1] = 1 \/ ~events[r[1] - 1].is_correction
        /\ r[2] = Len(events) \/ ~events[r[2] + 1].is_correction}

\* the runs with a recorded corrected character
RecordedRuns ==
    {r \in CorrectionRuns : \E i \in r[1]..r[2] : events[i].corrected_text # <<>>}

\* the lengths of the runs of R, in stream order
RunLengths(R) ==
    LET firsts == Ascending({r[1] : r \in R})
    IN [k \in 1..Len(firsts) |->
           LET r == CHOOSE q \in R : q[1] = firsts[k] IN r[2] - r[1] + 1]

\* the mean of 1/length over the runs of R, as a sum over a common denominator
MeanOfInverseLengths(R) ==
    LET lengths == RunLengths(R)
        common == ProdSeq(lengths)
    IN IF R = {} THEN [num |-> 0, den |-> 1]
       ELSE [num |-> SumSeq([i \in 1..Len(lengths) |-> common \div lengths[i]]),
             den |-> Cardinality(R) * common]

\* x is the mean of 1/length over the runs of R (0 for no run)
IsMeanOfInverses(x, R) ==
    /\ x.den > 0
    /\ x.num * MeanOfInverseLengths(R).den = MeanOfInverseLengths(R).num * x.den

\* C21 as stated: correction_efficiency is the mean of 1/length over all
\* correction sequences, and is 0 only when there is no correction sequence.
C21_Original ==
    agg_out.error_patterns # <<>> =>
        /\ IsMeanOfInverses(agg_out.error_patterns[1].correction_efficiency, CorrectionRuns)
        /\ agg_out.error_patterns[1].correction_efficiency.num = 0 => CorrectionRuns = {}

\* C21 amended: correction_sequences counts the maximal runs of correction
\* events; correction_efficiency is the mean of 1/length over the runs in
\* which at least one event carries a non-empty corrected_text, and is 0
\* exactly when there is no such run.
C21_Efficiency ==
    agg_out.error_patterns # <<>> =>
        /\ agg_out.error_patterns[1].correction_sequences = Cardinality(CorrectionRuns)
        /\ IsMeanOfInverses(agg_out.error_patterns[1].correction_efficiency, RecordedRuns)
        /\ agg_out.error_patterns[1].correction_efficiency.num = 0 <=> RecordedRuns = {}

\* a run of one correction on the empty buffer, which records nothing and is
\* left out, and a recorded run of two corrections: the efficiency is 1/2
C21_Witness ==
    /\ agg_out.error_patterns # <<>>
    /\ Cardinality(CorrectionRuns) > Cardinality(RecordedRuns)
    /\ Cardinality(RecordedRuns) = 1
    /\ agg_out.error_patterns[1].correction_efficiency.num > 0
    /\ \E r \in RecordedRuns : r[2] > r[1]

(***************************************************************************)
(* Specification of the final word: any stream of at most MaxFinalEvents   *)
(* keys among two letters, a comma, a space, a full stop and the           *)
(* backspace, then analyze_word_patterns.                                  *)
(***************************************************************************)
FinalKeys == {"e", "H", ",", " ", ".", "backspace"}

FinalInputs == {Typed(k) : k \in SeqsUpTo(FinalKeys, MaxFinalEvents)}

InitFinalWord ==
    /\ events \in FinalInputs
    /\ AnalyzerInit
    /\ KeyloggerInit
    /\ RestInit

NextFinalWord == RunAnalyzeWordPatterns

SpecFinalWord == InitFinalWord /\ [][NextFinalWord]_vars

\* the stream with one more key at the end
EventsThen(key) == Append(events, KeyEvent((Len(events) + 1) * 100, key))

\* the word still in the buffer when the stream ends
PendingWord == WordLoop(events, 1, Len(events), WordStart).current_word

\* C22 as stated: the segment list of a stream is the one of the same stream
\* with a single space event appended.
C22_Original ==
    pc = "done" => words_out = AnalyzeWordPatterns(EventsThen(" "))

\* C22 amended: the word pending at the end of the stream is closed as a word
\* closed by sentence punctuation is (trailing .!?,:; stripped before the
\* filter): the segment list is the one of the stream with a single '.'
\* appended, and it is the one of the stream with a single space appended
\* unless the pending word ends with ',', ':' or ';'.
C22_FinalFlush ==
    pc = "done" =>
        /\ words_out = AnalyzeWordPatterns(EventsThen("."))
        /\ (PendingWord = <<>> \/ PendingWord[Len(PendingWord)] \notin {",", ":", ";"})
              => words_out = AnalyzeWordPatterns(EventsThen(" "))

\* a pending word that ends with a comma: the final flush emits it without
\* the comma, a space would have kept the comma
C22_Witness ==
    /\ pc = "done"
    /\ PendingWord = <<"H", "e", ",">>
    /\ words_out = <<<<"h", "e">>>>
    /\ AnalyzeWordPatterns(EventsThen(" ")) = <<<<"h", "e", ",">>>>

(***************************************************************************)
(* Specification of the repair pass: a stream that types at most MaxChunks *)
(* chunks one after the other with no space between them, then a space,    *)
(* then analyze_word_patterns.  The chunks are four vocabulary words, one  *)
(* of them inside another, a run of letters outside the vocabulary and a   *)
(* chunk with no run of three letters.                                     *)
(***************************************************************************)
RepairChunks ==
    {<<"k", "e", "y", "b", "o", "a", "r", "d">>,
     <<"t", "y", "p", "i", "n", "g">>,
     <<"t", "h", "e">>,
     <<"t", "h", "e", "y">>,
     <<"q", "q", "q">>,
     <<"1", "z", "1", "z", "1", "z", "1">>}

RepairInputs ==
    {Typed(Concat(c) \o <<" ">>) : c \in SeqsUpTo(RepairChunks, MaxChunks)}

InitRepair ==
    /\ events \in RepairInputs
    /\ AnalyzerInit
    /\ KeyloggerInit
    /\ RestInit

NextRepair == RunAnalyzeWordPatterns

SpecRepair == InitRepair /\ [][NextRepair]_vars

\* the text typed before the closing space
TypedSegment == [i \in 1..(Len(events) - 1) |-> events[i].key_char]

\* the number of places where the word w occurs in text
Occurrences(text, w) ==
    Cardinality({k \in 1..(Len(text) - Len(w) + 1) : SubSeq(text, k, k + Len(w) - 1) = w})

\* the number of tokens of the list equal to w
Tokens(list, w) == Cardinality({i \in Indices(list) : list[i] = w})

Vocabulary == {patterns[i] : i \in Indices(patterns)}

\* a run of three lowercase letters somewhere in text
HasLetterRun(text) ==
    \E k \in 1..(Len(text) - 2) : \A j \in k..(k + 2) : text[j] \in LowerLetters

\* C23 as stated: in the list for a segment longer than 20 characters a
\* vocabulary word that occurs k times in the segment is k tokens, and the
\* segment itself is the single token only when nothing can be extracted.
C23_Original ==
    (pc = "done" /\ Len(TypedSegment) > merged_length) =>
        /\ \A w \in Vocabulary : Tokens(words_out, w) = Occurrences(TypedSegment, w)
        /\ words_out = <<TypedSegment>> =>
              \A w \in Vocabulary : Occurrences(TypedSegment, w) = 0

\* the vocabulary words that occur in the typed segment
Occurring == {w \in Vocabulary : Occurrences(TypedSegment, w) > 0}

\* C23 amended: a segment of at most 20 characters is kept as it is; for a
\* longer one the list has no token twice, so a vocabulary word is one token
\* at most however many times it is matched; when a vocabulary word occurs
\* in the segment the first token is a longest such word; and the segment
\* itself is the single token when it holds no vocabulary word and no run of
\* three letters, and only when it holds no vocabulary word.
C23_RepairTokens ==
    pc = "done" =>
        IF Len(TypedSegment) <= merged_length
        THEN words_out = IF Len(TypedSegment) > 1 THEN <<TypedSegment>> ELSE <<>>
        ELSE /\ \A i, j \in Indices(words_out) : i # j => words_out[i] # words_out[j]
             /\ Occurring # {} =>
                   /\ words_out[1] \in Occurring
                   /\ \A v \in Occurring : Len(v) <= Len(words_out[1])
             /\ (Occurring = {} /\ ~HasLetterRun(TypedSegment)) => words_out = <<TypedSegment>>
             /\ words_out = <<TypedSegment>> => Occurring = {}

\* "keyboard" typed twice and "typing" once in one segment of 22 characters:
\* the list is keyboard, typing
C23_Witness ==
    /\ pc = "done"
    /\ Len(TypedSegment) = 22
    /\ Occurrences(TypedSegment, <<"k", "e", "y", "b", "o", "a", "r", "d">>) = 2
    /\ words_out = <<<<"k", "e", "y", "b", "o", "a", "r", "d">>, <<"t", "y", "p", "i", "n", "g">>>>


(***************************************************************************)
(* The order and the counts of the result of                               *)
(* analyze_optimization_opportunities, against the list the five rules     *)
(* found (SpecOpportunities).                                              *)
(***************************************************************************)
\* the items of the list that have the priority p, in the order of the list
OfPriority(list, p) == SelectSeq(list, LAMBDA o : o.priority = p)

IsPrefix(a, b) == Len(a) <= Len(b) /\ a = SubSeq(b, 1, Len(a))

\* C24: the returned list is ordered by priority: no 'medium' item comes
\* before a 'high' one, the items of equal priority are in the order the
\* rules generated them, and the cut to 10 removes items from the tail only.
C24_PriorityOrder ==
    agg_out.optimization_opportunities # <<>> =>
        LET result == agg_out.optimization_opportunities[1].opportunities
            found == agg_out.found_opportunities[1]
        IN /\ \A i, j \in Indices(result) :
                  i < j => ~(result[i].priority = "medium" /\ result[j].priority = "high")
           /\ \A p \in {"high", "medium"} : IsPrefix(OfPriority(result, p), OfPriority(found, p))
           /\ OfPriority(result, "medium") # <<>> =>
                  OfPriority(result, "high") = OfPriority(found, "high")
           /\ Len(result) = IF Len(found) < 10 THEN Len(found) ELSE 10

\* eleven items were found, a 'medium' one first and a 'high' one last, two
\* different 'medium' text shortcuts among them; the last 'medium' one is cut
C24_Witness ==
    /\ agg_out.optimization_opportunities # <<>>
    /\ LET result == agg_out.optimization_opportunities[1].opportunities
           found == agg_out.found_opportunities[1]
       IN /\ Len(found) = 11
          /\ found[1].priority = "medium"
          /\ found[11].priority = "high"
          /\ found[1] # found[2] /\ found[2].priority = "medium"
          /\ result[1] = found[11]
          /\ result[2] = found[1]
          /\ result[3] = found[2]
          /\ found[10] \notin {result[i] : i \in Indices(result)}

\* C29: total_opportunities = high_priority + medium_priority, the three
\* counts are taken over all the opportunities found, before the cut, and
\* the returned list has exactly min(total_opportunities, 10) items.
C29_Counts ==
    agg_out.optimization_opportunities # <<>> =>
        LET result == agg_out.optimization_opportunities[1]
            found == agg_out.found_opportunities[1]
        IN /\ result.total_opportunities = result.high_priority + result.medium_priority
           /\ result.total_opportunities = Len(found)
           /\ result.high_priority = Len(OfPriority(found, "high"))
           /\ result.medium_priority = Len(OfPriority(found, "medium"))
           /\ Len(result.opportunities) =
                 IF result.total_opportunities < 10 THEN result.total_opportunities ELSE 10

\* eleven opportunities counted, three of them 'high', and ten returned
C29_Witness ==
    /\ agg_out.optimization_opportunities # <<>>
    /\ LET result == agg_out.optimization_opportunities[1]
       IN /\ result.total_opportunities = 11
          /\ result.high_priority = 3
          /\ result.medium_priority = 8
          /\ Len(result.opportunities) = 10


(***************************************************************************)
(* Reports (src/src/analyzer.py): load_data replaces the events of the     *)
(* analyzer, generate_reports writes analysis_results to the report files. *)
(* A report is the format and the results written; the csv export writes   *)
(* the events and is left out.                                             *)
(***************************************************************************)
ReportKeys == {"a", " "}

ReportWords == {Typed(<<"a", "a", " ">>)}

\* what the data directory can hold when load_data reads it
ReportInputs == {Typed(k) : k \in SeqsUpTo(ReportKeys, MaxReportEvents)} \cup ReportWords

\* TypingPatternAnalyzer.load_data: "self.events = self.data_manager.load_data(...)"
AnalyzerLoadData ==
    /\ \E loaded_events \in ReportInputs : events' = loaded_events
    /\ UNCHANGED <<pc, min_keystrokes, sessions_out, flow_out, words_out, agg_out>>
    /\ UNCHANGED <<keyloggerVars, restVars>>

\* _generate_html_report: "claude_insights.get("status")" raises on None
HtmlRaises(results) == results.claude_insights = None

\* what generate_reports writes, one report per format, up to the format
\* whose writer raises
WrittenReports(results, formats) ==
    LET written == {i \in 1..Len(formats) :
                       \A j \in 1..i : ~(formats[j] = "html" /\ HtmlRaises(results))}
    IN [i \in 1..Cardinality(written) |-> [format |-> formats[i], results |-> results]]

\* generate_reports: "if not self.analysis_results: return {}"
GenerateReports(formats) ==
    /\ Len(reports) < MaxReports
    /\ reports' = IF analysis_results = <<>>
                  THEN reports
                  ELSE reports \o WrittenReports(analysis_results, formats)
    /\ UNCHANGED <<analyzerVars, keyloggerVars, runVars, storeVars, wpmVars, monitorVars, threadVars>>

ReportFormats == {<<"json">>, <<"json", "html">>}

InitReports ==
    /\ events \in ReportInputs
    /\ AnalyzerInit
    /\ KeyloggerInit
    /\ analysis_results = <<>>
    /\ returned = <<>>
    /\ invoked = {}
    /\ clock = 0
    /\ claude_config \in {"no_api_key", "ready"}
    /\ DataManagerInit
    /\ WpmInit
    /\ MonitorInit
    /\ ReportInit
    /\ ThreadInit

NextReports ==
    \/ AnalyzerLoadData
    \/ RunFullAnalysis
    \/ \E formats \in ReportFormats : GenerateReports(formats)

SpecReports == InitReports /\ [][NextReports]_vars

\* C25: results are never carried over: once run_full_analysis has returned
\* the empty result for an empty event list, analysis_results holds nothing
\* of an earlier run, and generate_reports writes no report.
C25_Original ==
    [][(returned' # <<>> /\ returned'[Len(returned')] = <<>>)
          => (analysis_results' = <<>> /\ reports' = reports)]_vars

\* the results of an earlier run were written to a report after the last run
\* had returned the empty result
C25_StaleReport ==
    /\ Len(returned) = 2
    /\ returned[2] = <<>>
    /\ reports # <<>>
    /\ reports[1].results = returned[1]


(***************************************************************************)
(* The segment list during the replay of analyze_word_patterns             *)
(* (SpecFinalWord): the list after the first k events of the stream.       *)
(***************************************************************************)
SegmentsAfter(k) == WordLoop(events, 1, k, WordStart).text_segments

\* C26: a word appended to the segment list is never changed or removed by a
\* later event: the list after k events is the list after k - 1 events with
\* nothing or one word appended, a correction event leaves the list as it
\* is, and every list of the replay is the beginning of the list returned.
C26_SegmentsGrow ==
    pc = "done" =>
        \A k \in 1..Len(events) :
            /\ IsPrefix(SegmentsAfter(k - 1), SegmentsAfter(k))
            /\ Len(SegmentsAfter(k)) <= Len(SegmentsAfter(k - 1)) + 1
            /\ events[k].is_correction => SegmentsAfter(k) = SegmentsAfter(k - 1)
            /\ IsPrefix(SegmentsAfter(k), words_out)

\* "ee", a space, then a backspace: the word is in the list after the space
\* and in the list returned
C26_Witness ==
    /\ pc = "done"
    /\ Len(events) = 4
    /\ events[4].key_name = "backspace"
    /\ SegmentsAfter(2) = <<>>
    /\ SegmentsAfter(3) = <<<<"e", "e">>>>
    /\ words_out = <<<<"e", "e">>>>


(***************************************************************************)
(* add_keystroke and flush_buffer statement by statement                   *)
(* (src/src/utils.py), run by the listener thread (on_key_release) and by  *)
(* the timer thread (_periodic_flush) with no lock between them.  A thread *)
(* is "idle" outside of the DataManager, "appended" after the append of    *)
(* add_keystroke, "flush" at the entry of flush_buffer, "named" when the   *)
(* file name is computed, "snapshot" when 'data' is built, "written" when  *)
(* the file is written.                                                    *)
(***************************************************************************)
At(t, place) == flushers[t].at = place

Moved(t, place) == [flushers EXCEPT ![t].at = place]

\* on_key_release -> add_keystroke: "self._buffer.append(event)"
ListenerAppend(event) ==
    /\ At("listener", "idle")
    /\ Len(added) < MaxThreadAdds
    /\ buffer' = Append(buffer, event)
    /\ added' = Append(added, event)
    /\ flushers' = Moved("listener", "appended")
    /\ UNCHANGED <<buffer_size, files, wall_second, loaded, manual_flushes>>
    /\ UNCHANGED <<analyzerVars, keyloggerVars, runVars, wpmVars, monitorVars, reportVars>>

\* add_keystroke: "if len(self._buffer) >= self._buffer_size: self.flush_buffer()"
ListenerTest ==
    /\ At("listener", "appended")
    /\ flushers' = Moved("listener", IF ShouldFlush(Len(buffer), buffer_size)
                                     THEN "flush" ELSE "idle")
    /\ UNCHANGED <<storeVars, analyzerVars, keyloggerVars, runVars, wpmVars, monitorVars, reportVars>>

\* the timer fires: _periodic_flush, monitoring is on, calls flush_buffer
TimerFires ==
    /\ At("timer", "idle")
    /\ flushers' = Moved("timer", "flush")
    /\ UNCHANGED <<storeVars, analyzerVars, keyloggerVars, runVars, wpmVars, monitorVars, reportVars>>

\* flush_buffer: "if not self._buffer: return", then the name from the clock
FlushName(t) ==
    /\ At(t, "flush")
    /\ flushers' = IF buffer = <<>> THEN Moved(t, "idle")
                   ELSE [flushers EXCEPT ![t].at = "named", ![t].filename = wall_second]
    /\ UNCHANGED <<storeVars, analyzerVars, keyloggerVars, runVars, wpmVars, monitorVars, reportVars>>

\* "data = [event.to_dict() for event in self._buffer]"
FlushSnapshot(t) ==
    /\ At(t, "named")
    /\ flushers' = [flushers EXCEPT ![t].at = "snapshot", ![t].data = buffer]
    /\ UNCHANGED <<storeVars, analyzerVars, keyloggerVars, runVars, wpmVars, monitorVars, reportVars>>

\* "with open(filename, "w") as f: json.dump(data, f, indent=2)"
FlushWrite(t) ==
    /\ At(t, "snapshot")
    /\ files' = WithKey(files, flushers[t].filename, flushers[t].data)
    /\ flushers' = Moved(t, "written")
    /\ UNCHANGED <<buffer, buffer_size, wall_second, loaded, added, manual_flushes>>
    /\ UNCHANGED <<analyzerVars, keyloggerVars, runVars, wpmVars, monitorVars, reportVars>>

\* "self._buffer.clear()" and the return
FlushClear(t) ==
    /\ At(t, "written")
    /\ buffer' = <<>>
    /\ flushers' = [flushers EXCEPT ![t] = [at |-> "idle", filename |-> 0, data |-> <<>>]]
    /\ UNCHANGED <<buffer_size, files, wall_second, loaded, added, manual_flushes>>
    /\ UNCHANGED <<analyzerVars, keyloggerVars, runVars, wpmVars, monitorVars, reportVars>>

(***************************************************************************)
(* Specification of the two threads: at most MaxThreadAdds key releases, a *)
(* buffer size of at most MaxBufferSize, the timer firing at any time.     *)
(***************************************************************************)
InitThreads ==
    /\ events = <<>>
    /\ AnalyzerInit
    /\ KeyloggerInit
    /\ RunInit
    /\ WpmInit
    /\ MonitorInit
    /\ ReportInit
    /\ ThreadInit
    /\ buffer = <<>>
    /\ buffer_size \in 1..MaxBufferSize
    /\ files = <<>>
    /\ wall_second = 0
    /\ loaded = <<>>
    /\ added = <<>>
    /\ manual_flushes = 0

NextThreads ==
    \/ ListenerAppend(CharEvent((Len(added) + 1) * 1000, "a"))
    \/ ListenerTest
    \/ TimerFires
    \/ \E t \in Flushers : FlushName(t)
    \/ \E t \in Flushers : FlushSnapshot(t)
    \/ \E t \in Flushers : FlushWrite(t)
    \/ \E t \in Flushers : FlushClear(t)
    \/ NextSecond

SpecThreads == InitThreads /\ [][NextThreads]_vars

\* the number of places on disk that hold the event
TimesOnDisk(event) ==
    Cardinality({place \in (DOMAIN files) \X (1..MaxThreadAdds) :
                    /\ place[2] <= Len(files[place[1]])
                    /\ files[place[1]][place[2]] = event})

Quiescent == buffer = <<>> /\ \A t \in Flushers : At(t, "idle")

\* C27: under every interleaving of the listener thread's add_keystroke with
\* the timer thread's flush_buffer, every keystroke is written to disk
\* exactly once: when both threads are out of the DataManager and the
\* buffer is empty, each event added is at exactly one place on disk.
C27_Original ==
    Quiescent => \A i \in Indices(added) : TimesOnDisk(added[i]) = 1

\* an event appended between the snapshot of a flush and its clear is in no
\* file when the flush is over, with every flush in a second of its own
C27_LostAppend ==
    /\ Quiescent
    /\ Len(added) = 2
    /\ wall_second = 0
    /\ Cardinality(DOMAIN files) = 1
    /\ TimesOnDisk(added[1]) = 1
    /\ TimesOnDisk(added[2]) = 0

\* two flushes run at once and write the same events to two files
C27_WrittenTwice ==
    /\ Quiescent
    /\ \E i \in Indices(added) : TimesOnDisk(added[i]) = 2


(***************************************************************************)
(* The status of the Claude insights (SpecRun, SpecReports).               *)
(***************************************************************************)
\* C28: analyze_with_claude returns a dict with a 'status' key on every
\* path, so the claude_insights entry of every non-empty result has a status
\* the HTML report can read.
C28_Original ==
    \A i \in Indices(returned) :
        returned[i] # <<>> => "status" \in DOMAIN returned[i].claude_insights

\* the API answered 200 with no content: the entry is None, and the HTML
\* report of these results is not written while the JSON one is
C28_NoStatus ==
    /\ Len(returned) = 1
    /\ returned[1] # <<>>
    /\ returned[1].claude_insights = None
    /\ Len(reports) = 1
    /\ reports[1].format = "json"


(***************************************************************************)
(* Specification of the typo table: a fresh keylogger and a typist who     *)
(* types at most MaxTypos misspellings of the table, letter by letter, one *)
(* right after the other.                                                  *)
(***************************************************************************)
Misspellings == {common_typos[k].typo : k \in Indices(common_typos)}

TypoTexts == {Concat(ws) : ws \in SeqsUpTo(Misspellings, MaxTypos)}

\* the keys released so far
ReleasedKeys == [i \in 1..Len(captured) |-> captured[i].key_name]

\* the keys that continue one of the texts
TypoKeys ==
    {text[Len(captured) + 1] :
        text \in {x \in TypoTexts : /\ Len(x) > Len(captured)
                                      /\ SubSeq(x, 1, Len(captured)) = ReleasedKeys}}

InitTypos ==
    /\ events = <<>>
    /\ AnalyzerInit
    /\ KeyloggerInit
    /\ RestInit

NextTypos == \E key \in TypoKeys : OnKeyRelease(key)

SpecTypos == InitTypos /\ [][NextTypos]_vars

\* the keys released end with the letters of the misspelling
JustTyped(typo) ==
    /\ Len(captured) >= Len(typo)
    /\ SubSeq(ReleasedKeys, Len(captured) - Len(typo) + 1, Len(captured)) = typo

\* C30: typing the letters of any misspelling of the typo table flags the
\* event that completes it as likely_typo, with the pattern of that entry.
C30_Original ==
    \A k \in Indices(common_typos) :
        JustTyped(common_typos[k].typo) =>
            /\ captured[Len(captured)].likely_typo
            /\ captured[Len(captured)].typo_pattern = <<common_typos[k]>>

\* "recieve" typed on a fresh keylogger: no event is flagged
C30_Recieve ==
    /\ ReleasedKeys = <<"r", "e", "c", "i", "e", "v", "e">>
    /\ \A i \in Indices(captured) : ~captured[i].likely_typo

\* "teh" typed on a fresh keylogger: the third event is flagged teh -> the
C30_Teh ==
    /\ ReleasedKeys = <<"t", "e", "h">>
    /\ captured[3].likely_typo
    /\ captured[3].typo_pattern = <<common_typos[1]>>

\* "adn" typed right after "teh": the event that completes it carries the
\* pattern of "teh"
C30_AdnAfterTeh ==
    /\ ReleasedKeys = <<"t", "e", "h", "a", "d", "n">>
    /\ captured[6].likely_typo
    /\ captured[6].typo_pattern = <<common_typos[1]>>

====
